---- MODULE Spec2Model ----
(***************************************************************************)
(* A model of the query and filtering engine of the CanDIG metadata        *)
(* service (candig/metadata/backend.py): the resumable object generators,  *)
(* the filter validator and evaluator, the paginated single-entity search  *)
(* and the advanced query (component fan-out, logic tree, negation).       *)
(*                                                                         *)
(* Strings that the code converts (page tokens) are sequences of one-      *)
(* character strings, so that str() and the token parser are computed.     *)
(***************************************************************************)
EXTENDS Integers, Sequences, FiniteSets, TLC

VARIABLES
    \* ---- the generators alone (SpecGen)
    objectList,        \* the list a list generator runs over
    page_token,        \* request.page_token handed to the generator
    generated,         \* what the generator yielded (or the error it raised)
    \* ---- the filter engine alone (SpecFilter)
    filters,           \* the raw filter list of a request
    obj,               \* the candidate object
    validated,         \* outcome of filtersValidator
    qualified,         \* outcome of comparisonGenerator
    \* ---- a single-entity search followed page by page (SpecSearch)
    patients,          \* dataset.getPatients(), in collection order
    access_map,        \* dataset local name -> tier
    defaultPageSize,   \* Backend._defaultPageSize
    maxResponseLength, \* Backend._maxResponseLength
    request,           \* the search request being (re-)issued
    response,          \* the last response, or the error raised
    collected,         \* protocol elements received so far, in order
    lookups,           \* field-mapper lookups done by the last call
    pc,                \* position of the client / of the query handler
    \* ---- the advanced query (SpecQuery)
    samples,           \* dataset.getSamples(), in collection order
    query,             \* the parsed advanced query request
    responses,         \* endpointCaller's responses map
    fanout,            \* endpointCaller's position: key index, request, token
    patient_list,      \* logicHandler's result (or the error raised)
    results,           \* resultsHandler's return value (or the error raised)
    calls,             \* the handlers resultsHandler has called
    \* ---- the dataset registry of a data repository (SpecRegistry)
    _datasetIdMap,     \* AbstractDataRepository._datasetIdMap
    _datasetNameMap,   \* AbstractDataRepository._datasetNameMap
    _datasetIds,       \* AbstractDataRepository._datasetIds
    inserted,          \* the datasets handed to addDataset, in order
    found,             \* what the last lookup returned (or the error raised)
    \* ---- an update of the repository by the repo manager (SpecUpdate)
    _openMode,         \* SqlDataRepository._openMode
    database,          \* what the database file holds
    update,            \* the update function running and where it stands
    \* ---- compound identifiers (SpecId)
    cid,               \* a compound id object, or nothing
    givenId,           \* the id string handed to CompoundId.parse
    parseResult,       \* what parse returned (or the error raised)
    \* ---- attributes of an object and the message they are written to (SpecAttr)
    attributes,        \* DatamodelObject._attributes
    callerTier,        \* the access level (tier) of the caller
    msg,               \* msg.attributes.attr of the protocol message
    \* ---- the pages of one advanced query (SpecPages), of each client (SpecConcurrent)
    pages,             \* what each request so far computed and returned
    \* ---- other clients searching at the same time (SpecConcurrent)
    clients            \* per client: its first and its next request, its position

genVars == <<objectList, page_token, generated>>
filterVars == <<filters, obj, validated, qualified>>
repoVars == <<patients, samples, access_map, defaultPageSize, maxResponseLength>>
searchVars == <<request, response, collected, lookups>>
queryVars == <<query, responses, fanout, patient_list>>
resultVars == <<results, calls>>
registryVars == <<_datasetIdMap, _datasetNameMap, _datasetIds, inserted, found>>
updateVars == <<_openMode, database, update>>
idVars == <<cid, givenId, parseResult>>
attrVars == <<attributes, callerTier, msg>>
vars == <<genVars, filterVars, repoVars, searchVars, queryVars, resultVars,
          registryVars, updateVars, idVars, attrVars, pages, clients, pc>>

\* ------------------------------------------------------------------ bounds
MaxObjects == 3
MaxAge == 1
MaxExtra == 1
MaxFilters == 2
MaxChildren == 2
MaxRows == 2
MaxNameLen == 2
MaxIdLen == 4
MaxDatasets == 3
MaxTables == 3
MaxTier == 2

\* ------------------------------------------------------ program constants
\* Backend._defaultPageSize as the constructor sets it.
DefaultPageSize == 1800
\* Backend._maxResponseLength as the constructor sets it: 2**20 bytes.
MaxResponseLength == 1048576

\* ------------------------------------------------------------- primitives
\* Python's None, as a token value: no decimal string equals it.
None == <<"N", "o", "n", "e">>
\* The value of a variable a specification does not use.
Unused == <<>>

DatasetName == "dataset1"
Digits == <<"0", "1", "2", "3", "4", "5", "6", "7", "8", "9">>

IsDigit(c) == \E i \in 1..10 : Digits[i] = c
DigitValue(c) == (CHOOSE i \in 1..10 : Digits[i] = c) - 1

\* str(n) for a natural number: its decimal digits.
RECURSIVE StrOfNat(_)
StrOfNat(n) ==
    IF n < 10 THEN <<Digits[n + 1]>>
    ELSE StrOfNat(n \div 10) \o <<Digits[(n % 10) + 1]>>

\* str(n) for an integer.
str(n) == IF n < 0 THEN <<"-">> \o StrOfNat(-n) ELSE StrOfNat(n)

\* The value of a non-empty digit string.
RECURSIVE NatOfStr(_)
NatOfStr(s) ==
    IF Len(s) = 1 THEN DigitValue(s[1])
    ELSE 10 * NatOfStr(SubSeq(s, 1, Len(s) - 1)) + DigitValue(s[Len(s)])

\* Whether int(s) succeeds: an optional sign and at least one digit.
IsIntLiteral(s) ==
    LET body == IF Len(s) > 0 /\ s[1] \in {"-", "+"} THEN Tail(s) ELSE s
    IN  Len(body) > 0 /\ \A i \in 1..Len(body) : IsDigit(body[i])

\* int(s) for a string for which IsIntLiteral holds.
int(s) ==
    IF s[1] = "-" THEN 0 - NatOfStr(Tail(s))
    ELSE IF s[1] = "+" THEN NatOfStr(Tail(s))
    ELSE NatOfStr(s)

\* s.split(":"): the pieces between the colons (always at least one piece).
RECURSIVE Split(_)
Split(s) ==
    IF \A i \in 1..Len(s) : s[i] # ":" THEN <<s>>
    ELSE LET k == CHOOSE i \in 1..Len(s) :
                      s[i] = ":" /\ \A j \in 1..(i - 1) : s[j] # ":"
         IN  <<SubSeq(s, 1, k - 1)>> \o Split(SubSeq(s, k + 1, Len(s)))

\* paging._parsePageToken(pageToken, numValues): the integer components of a
\* colon-separated token, or the bad-page-token error.
_parsePageToken(pageToken, numValues) ==
    LET Parse(tokens) ==
            IF Len(tokens) # numValues
            THEN [err |-> "BadPageTokenException", values |-> <<>>]
            ELSE IF \E i \in 1..Len(tokens) : ~IsIntLiteral(tokens[i])
            THEN [err |-> "BadPageTokenException", values |-> <<>>]
            ELSE [err |-> "none", values |-> [i \in 1..Len(tokens) |-> int(tokens[i])]]
    IN  Parse(Split(pageToken))

\* ---------------------------------------------------------------- objects
\* A datamodel object: its local id, the patient it belongs to, one
\* filterable attribute and the amount of further payload it serializes to.
PatientIds == 1..MaxObjects
Objects == [localId : 1..MaxObjects, patientId : PatientIds,
            age : 0..MaxAge, extra : 0..MaxExtra]

\* object_.toProtocolElement(tier): the wire form of an object.
toProtocolElement(object_, tier) ==
    [id |-> object_.localId, patientId |-> object_.patientId,
     age |-> object_.age, extra |-> object_.extra]

\* protocolElement.ByteSize()
ByteSize(protocolElement) == 1 + protocolElement.extra

\* objectList[index] of a Python list: a negative index counts from the end.
ListIndexOk(list, index) == index < Len(list) /\ index >= 0 - Len(list)
ListGet(list, index) ==
    IF index >= 0 THEN list[index + 1] ELSE list[Len(list) + index + 1]

\* --------------------------------------------------------------- generators
\* A generator whose token names the index just yielded instead of the next.
RECURSIVE GeneratorLoop_StaleToken(_, _)
GeneratorLoop_StaleToken(currentIndex, numObjects) ==
    IF currentIndex < numObjects
    THEN <<[index |-> currentIndex,
            nextPageToken |-> IF currentIndex + 1 < numObjects
                              THEN str(currentIndex) ELSE None]>>
         \o GeneratorLoop_StaleToken(currentIndex + 1, numObjects)
    ELSE <<>>

\* The while loop shared by both object generators, from currentIndex on: the
\* indices fetched, each with the next page token yielded beside it.
RECURSIVE GeneratorLoop(_, _)
GeneratorLoop(currentIndex, numObjects) ==
    IF currentIndex < numObjects
    THEN <<[index |-> currentIndex,
            nextPageToken |-> IF currentIndex + 1 < numObjects
                              THEN str(currentIndex + 1) ELSE None]>>
         \o GeneratorLoop(currentIndex + 1, numObjects)
    ELSE <<>>

\* The start index of a generator: 0 for an empty token, else the token's
\* single integer.
StartIndex(token) ==
    IF token = <<>> THEN [err |-> "none", values |-> <<0>>]
    ELSE _parsePageToken(token, 1)

\* What a generator over a list yields: [err, items], an item being the index
\* fetched, the object fetched there and the token beside it. `convert` says
\* whether the object is turned into its protocol element at `tier`.
ListGenerator(token, list, convert, tier) ==
    LET Fetch(steps) ==
            IF \E k \in 1..Len(steps) : ~ListIndexOk(list, steps[k].index)
            THEN [err |-> "IndexError", items |-> <<>>]
            ELSE [err |-> "none",
                  items |-> [k \in 1..Len(steps) |->
                      [index |-> steps[k].index,
                       object |-> IF convert
                                  THEN toProtocolElement(ListGet(list, steps[k].index), tier)
                                  ELSE ListGet(list, steps[k].index),
                       nextPageToken |-> steps[k].nextPageToken]]]
        From(start) ==
            IF start.err # "none" THEN [err |-> start.err, items |-> <<>>]
            ELSE Fetch(GeneratorLoop(start.values[1], Len(list)))
    IN  From(StartIndex(token))

\* A list generator that ignores the page token and starts over.
_objectListGenerator_IgnoresToken(token, list, tier) ==
    ListGenerator(<<>>, list, TRUE, tier)

\* Backend._objectListGenerator -> _topLevelObjectGenerator
_objectListGenerator(token, list, tier) == ListGenerator(token, list, TRUE, tier)

\* Backend._protocolListGenerator -> _protocolObjectGenerator
_protocolListGenerator(token, list) == ListGenerator(token, list, FALSE, 0)

\* ------------------------------------------------------------ filter engine
\* A filter is a JSON object: `keys` are the keys it has, the other fields the
\* values under them (meaningless for an absent key).
FilterKeys == {"field", "operator", "value", "values"}

\* self.ops: the operator names known to the backend and what each applies.
OpsTable ==
    [x \in {">", "gt", "<", "lt", ">=", "ge", "<=", "le", "eq", "=", "==",
            "!=", "ne", "contains"} |->
        CASE x \in {">", "gt"} -> "gt"
          [] x \in {"<", "lt"} -> "lt"
          [] x \in {">=", "ge"} -> "ge"
          [] x \in {"<=", "le"} -> "le"
          [] x \in {"eq", "=", "=="} -> "eq"
          [] x \in {"!=", "ne"} -> "ne"
          [] OTHER -> "contains"]

\* str.lower() on the operator names of the model.
lower(name) ==
    CASE name = "GT" -> "gt"
      [] name = "EQ" -> "eq"
      [] name = "IN" -> "in"
      [] OTHER -> name

\* Applying a function of the operator module to two integers: the truth
\* value, or TypeError (an integer is no container).
ApplyOp(fn, a, b) ==
    CASE fn = "gt" -> [err |-> "none", holds |-> a > b]
      [] fn = "lt" -> [err |-> "none", holds |-> a < b]
      [] fn = "ge" -> [err |-> "none", holds |-> a >= b]
      [] fn = "le" -> [err |-> "none", holds |-> a <= b]
      [] fn = "eq" -> [err |-> "none", holds |-> a = b]
      [] fn = "ne" -> [err |-> "none", holds |-> a # b]
      [] OTHER -> [err |-> "TypeError", holds |-> FALSE]

\* The keys of DatamodelObject._objectAttr for the objects of the model.
ObjectAttr == {"patientId", "age"}

\* difflib.get_close_matches(field, keys) for the field names of the model.
get_close_matches(field) ==
    IF field = "agee" THEN <<"age">>
    ELSE IF field = "patientID" THEN <<"patientId">>
    ELSE <<>>

\* DatamodelObject.mapper(field): the value of the field, or the field-name
\* error (with or without a suggestion).
mapper(object_, field) ==
    IF field \in ObjectAttr
    THEN [err |-> "none",
          value |-> IF field = "age" THEN object_.age ELSE object_.patientId]
    ELSE IF Len(get_close_matches(field)) > 0
    THEN [err |-> "BadFieldNameException", value |-> 0]
    ELSE [err |-> "BadFieldNameNoCloseMatchException", value |-> 0]

\* One iteration of comparisonGenerator's loop: [err, pass, lookups] where
\* lookups counts the calls of obj.mapper. Errors are those the except
\* clauses turn the raised exception into.
CompareOne(object_, filter) ==
    IF "value" \notin filter.keys
    THEN IF "values" \notin filter.keys
         THEN [err |-> "none", pass |-> FALSE, lookups |-> 0]
         ELSE IF "field" \notin filter.keys
         THEN [err |-> "BadFilterKeyException", pass |-> FALSE, lookups |-> 0]
         ELSE LET m == mapper(object_, filter.field)
              IN  IF m.err # "none"
                  THEN [err |-> m.err, pass |-> FALSE, lookups |-> 1]
                  ELSE [err |-> "none", pass |-> m.value \in filter.values,
                        lookups |-> 1]
    ELSE IF "operator" \notin filter.keys
              \/ lower(filter.operator) \notin DOMAIN OpsTable
    THEN [err |-> "BadFilterKeyException", pass |-> FALSE, lookups |-> 0]
    ELSE IF "field" \notin filter.keys
    THEN [err |-> "BadFilterKeyException", pass |-> FALSE, lookups |-> 0]
    ELSE LET m == mapper(object_, filter.field)
             r == ApplyOp(OpsTable[lower(filter.operator)], m.value, filter.value)
         IN  IF m.err # "none"
             THEN [err |-> m.err, pass |-> FALSE, lookups |-> 1]
             ELSE IF r.err # "none"
             THEN [err |-> "BadInputTypeException", pass |-> FALSE, lookups |-> 1]
             ELSE [err |-> "none", pass |-> r.holds, lookups |-> 1]

\* A comparison loop without the break: the last filter decides.
RECURSIVE CompareFrom_NoBreak(_, _, _)
CompareFrom_NoBreak(object_, fs, k) ==
    LET Step(one) ==
            IF one.err # "none"
            THEN [err |-> one.err, qualified |-> FALSE, lookups |-> one.lookups]
            ELSE IF ~one.pass /\ k = Len(fs)
            THEN [err |-> "none", qualified |-> FALSE, lookups |-> one.lookups]
            ELSE [CompareFrom_NoBreak(object_, fs, k + 1) EXCEPT !.lookups = @ + one.lookups]
    IN  IF k > Len(fs) THEN [err |-> "none", qualified |-> TRUE, lookups |-> 0]
        ELSE Step(CompareOne(object_, fs[k]))

\* Backend.comparisonGenerator(obj, filters) from filter number k on:
\* [err, qualified, lookups]; the loop breaks at the first failing filter.
RECURSIVE CompareFrom(_, _, _)
CompareFrom(object_, fs, k) ==
    LET Step(one) ==
            IF one.err # "none"
            THEN [err |-> one.err, qualified |-> FALSE, lookups |-> one.lookups]
            ELSE IF ~one.pass
            THEN [err |-> "none", qualified |-> FALSE, lookups |-> one.lookups]
            ELSE [CompareFrom(object_, fs, k + 1) EXCEPT !.lookups = @ + one.lookups]
    IN  IF k > Len(fs) THEN [err |-> "none", qualified |-> TRUE, lookups |-> 0]
        ELSE Step(CompareOne(object_, fs[k]))

comparisonGenerator(object_, fs) == CompareFrom(object_, fs, 1)

\* set(filt["values"])
SetOf(list) == {list[i] : i \in 1..Len(list)}

\* A validator that forgets that the membership operator needs values.
ValidateOne_NoInCheck(filt) ==
    IF "field" \notin filt.keys \/ "operator" \notin filt.keys
    THEN "Please specify field and/or operator"
    ELSE IF "value" \in filt.keys /\ "values" \in filt.keys
    THEN "only one of value or values"
    ELSE IF "value" \in filt.keys
    THEN "ok"
    ELSE IF "values" \in filt.keys
    THEN IF filt.operator # "in" THEN "values needs in" ELSE "ok"
    ELSE "need one of value or values"

\* The check filtersValidator makes of one filter: "ok" or the rule broken.
ValidateOne(filt) ==
    IF "field" \notin filt.keys \/ "operator" \notin filt.keys
    THEN "Please specify field and/or operator"
    ELSE IF "value" \in filt.keys /\ "values" \in filt.keys
    THEN "only one of value or values"
    ELSE IF "value" \in filt.keys
    THEN IF filt.operator = "in" THEN "in needs values" ELSE "ok"
    ELSE IF "values" \in filt.keys
    THEN IF filt.operator # "in" THEN "values needs in" ELSE "ok"
    ELSE "need one of value or values"

\* Backend.filtersValidator: the filters, the values of each membership filter
\* made a set, or BadRequestException for the first filter that breaks a rule.
filtersValidator(raw) ==
    IF \E i \in 1..Len(raw) : ValidateOne(raw[i]) # "ok"
    THEN LET bad == CHOOSE i \in 1..Len(raw) :
                        /\ ValidateOne(raw[i]) # "ok"
                        /\ \A j \in 1..(i - 1) : ValidateOne(raw[j]) = "ok"
         IN  [err |-> "BadRequestException", message |-> ValidateOne(raw[bad]),
              filters |-> <<>>]
    ELSE [err |-> "none", message |-> "",
          filters |-> [i \in 1..Len(raw) |->
              IF "values" \in raw[i].keys
              THEN [raw[i] EXCEPT !.values = SetOf(@)]
              ELSE raw[i]]]

\* ------------------------------------------------------- single-entity search
\* Backend.getUserAccessTier(dataset, access_map): the tier, or not-authorized
\* when the dataset's local name is not in the map.
getUserAccessTier(dataset_name, map) ==
    IF dataset_name \in DOMAIN map
    THEN [err |-> "none", tier |-> map[dataset_name]]
    ELSE [err |-> "NotAuthorizedException", tier |-> 0]

\* The for loop of an entity generator over the collection from object k on:
\* [err, results, lookups]; an exception of comparisonGenerator ends the scan.
RECURSIVE ScanFrom(_, _, _)
ScanFrom(collection, fs, k) ==
    LET Join(c, rest) ==
            [err |-> rest.err,
             results |-> IF rest.err # "none" THEN <<>>
                         ELSE IF c.qualified
                         THEN <<collection[k]>> \o rest.results
                         ELSE rest.results,
             lookups |-> c.lookups + rest.lookups]
        Step(c) ==
            IF c.err # "none"
            THEN [err |-> c.err, results |-> <<>>, lookups |-> c.lookups]
            ELSE Join(c, ScanFrom(collection, fs, k + 1))
    IN  IF k > Len(collection) THEN [err |-> "none", results |-> <<>>, lookups |-> 0]
        ELSE Step(comparisonGenerator(collection[k], fs))

\* An entity generator that asks for the access tier after the scan.
entityGenerator_ScanFirst(req, collection, map) ==
    LET Yield(gen, n) == [err |-> gen.err, items |-> gen.items, lookups |-> n]
        Generate(access, scan) ==
            IF scan.err # "none"
            THEN [err |-> scan.err, items |-> <<>>, lookups |-> scan.lookups]
            ELSE IF access.err # "none"
            THEN [err |-> access.err, items |-> <<>>, lookups |-> scan.lookups]
            ELSE Yield(_objectListGenerator(req.page_token, scan.results, access.tier),
                       scan.lookups)
        Scan(access, valid) ==
            IF valid.err # "none"
            THEN [err |-> valid.err, items |-> <<>>, lookups |-> 0]
            ELSE Generate(access, ScanFrom(collection, valid.filters, 1))
    IN  Scan(getUserAccessTier(DatasetName, map), filtersValidator(req.filters))

\* Backend.patientsGenerator (and every other entity generator, which differ
\* in the collection only): access tier, then filter validation, then the
\* scan, then the list generator over the qualified objects.
\* [err, items, lookups].
entityGenerator(req, collection, map) ==
    LET Yield(gen, n) == [err |-> gen.err, items |-> gen.items, lookups |-> n]
        Generate(access, scan) ==
            IF scan.err # "none"
            THEN [err |-> scan.err, items |-> <<>>, lookups |-> scan.lookups]
            ELSE Yield(_objectListGenerator(req.page_token, scan.results, access.tier),
                       scan.lookups)
        Scan(access, valid) ==
            IF access.err # "none"
            THEN [err |-> access.err, items |-> <<>>, lookups |-> 0]
            ELSE IF valid.err # "none"
            THEN [err |-> valid.err, items |-> <<>>, lookups |-> 0]
            ELSE Generate(access, ScanFrom(collection, valid.filters, 1))
    IN  Scan(getUserAccessTier(DatasetName, map), filtersValidator(req.filters))

\* response_builder.SearchResponseBuilder as runSearchRequest drives it, from
\* item k on: addValue, then break when isFull (the page holds pageSize
\* values or its bytes exceed maxBufferSize). acc is [values, bufferSize,
\* nextPageToken].
RECURSIVE FillPage(_, _, _, _, _)
FillPage(items, k, acc, pageSize, maxBufferSize) ==
    IF k > Len(items) THEN acc
    ELSE LET added == [values |-> Append(acc.values, items[k].object),
                       bufferSize |-> acc.bufferSize + ByteSize(items[k].object),
                       nextPageToken |-> items[k].nextPageToken]
             isFull == added.bufferSize > maxBufferSize
                         \/ Len(added.values) >= pageSize
         IN  IF isFull THEN added
             ELSE FillPage(items, k + 1, added, pageSize, maxBufferSize)

\* protocol.toJson of a search response as json.loads reads it back: an empty
\* value list and an unset token are left out of the object.
SerializedResponse(table, values, nextPageToken) ==
    [err |-> "none",
     keys |-> (IF values # <<>> THEN {table} ELSE {})
                \cup (IF nextPageToken # None THEN {"nextPageToken"} ELSE {}),
     table |-> table,
     rows |-> values,
     nextPageToken |-> nextPageToken,
     lookups |-> 0]

Raised(error, n) ==
    [err |-> error, keys |-> {}, table |-> "", rows |-> <<>>,
     nextPageToken |-> None, lookups |-> n]

\* Backend.runSearchRequest for the search of one table over `collection`.
runSearchRequest(req, table, collection, map, defaultSize, maxLength) ==
    LET page_size == IF req.page_size = 0 THEN defaultSize ELSE req.page_size
        Serialize(page, n) ==
            [SerializedResponse(table, page.values, page.nextPageToken)
                EXCEPT !.lookups = n]
        Build(gen) ==
            IF gen.err # "none" THEN Raised(gen.err, gen.lookups)
            ELSE Serialize(FillPage(gen.items, 1,
                                    [values |-> <<>>, bufferSize |-> 0,
                                     nextPageToken |-> None],
                                    page_size, maxLength),
                           gen.lookups)
    IN  IF page_size < 0 THEN Raised("BadPageSizeException", 0)
        ELSE Build(entityGenerator(req, collection, map))

\* ----------------------------------------------------------- component fan-out
\* A component is a JSON object: `keys` are its keys (normally "id" and one
\* endpoint name), `id` the value under "id", `endpoint` its other key when
\* it has two, `hasFilters` / `filters` what is under that key.
Component(id, endpoint, hasFilters, fs) ==
    [keys |-> {"id", endpoint}, id |-> id, endpoint |-> endpoint,
     hasFilters |-> hasFilters, filters |-> IF hasFilters THEN fs ELSE <<>>]

\* The ids of the components, in order of first appearance (the key order of
\* the requests dict).
RECURSIVE KeyOrder(_)
KeyOrder(components) ==
    IF components = <<>> THEN <<>>
    ELSE LET before == KeyOrder(SubSeq(components, 1, Len(components) - 1))
             id == components[Len(components)].id
         IN  IF \E i \in 1..Len(before) : before[i] = id THEN before
             ELSE Append(before, id)

\* The last component carrying an id: later components overwrite earlier ones
\* in requests and idMapper.
LastWithId(components, id) ==
    components[CHOOSE i \in 1..Len(components) :
                   /\ components[i].id = id
                   /\ \A j \in (i + 1)..Len(components) : components[j].id # id]

\* Backend.componentsHandler up to its call of endpointCaller:
\* [err, order, idMapper, requests].
componentsHandler(components) ==
    IF \E i \in 1..Len(components) : Cardinality(components[i].keys) # 2
    THEN [err |-> "MissingFieldNameException", order |-> <<>>,
          idMapper |-> <<>>, requests |-> <<>>]
    ELSE IF \E i \in 1..Len(components) : "id" \notin components[i].keys
    THEN [err |-> "ValueError", order |-> <<>>, idMapper |-> <<>>, requests |-> <<>>]
    ELSE LET order == KeyOrder(components)
             ids == {order[i] : i \in 1..Len(order)}
         IN  [err |-> "none", order |-> order,
              idMapper |-> [id \in ids |-> LastWithId(components, id).endpoint],
              requests |-> [id \in ids |->
                  [filters |-> LastWithId(components, id).filters,
                   page_size |-> 0, page_token |-> <<>>]]]

\* self.endpointMapper[endpoint](requestStr, return_mimetype, access_map) for
\* the two tables of the model; any other endpoint name is a KeyError.
endpointMapper(endpoint, req) ==
    IF endpoint = "patients"
    THEN runSearchRequest(req, "patients", patients, access_map,
                          defaultPageSize, maxResponseLength)
    ELSE IF endpoint = "samples"
    THEN runSearchRequest(req, "samples", samples, access_map,
                          defaultPageSize, maxResponseLength)
    ELSE Raised("KeyError", 0)

\* An endpointCaller that takes a failed search for one without rows.
FirstPageOutcome_SwallowsError(endpoint, responseObj) ==
    [raised |-> FALSE,
     rows |-> IF endpoint \in responseObj.keys THEN responseObj.rows ELSE <<>>]

\* What endpointCaller makes of the first response for a key: an exception of
\* the handler propagates; a response without the endpoint's key gives [].
FirstPageOutcome(endpoint, responseObj) ==
    IF responseObj.err # "none"
    THEN [raised |-> TRUE, rows |-> <<>>]
    ELSE [raised |-> FALSE,
          rows |-> IF endpoint \in responseObj.keys THEN responseObj.rows ELSE <<>>]

\* What endpointCaller makes of a later response for a key.
NextPageOutcome(endpoint, responseObj) ==
    IF responseObj.err # "none"
    THEN [raised |-> TRUE, rows |-> <<>>]
    ELSE IF endpoint \notin responseObj.keys
    THEN [raised |-> TRUE, rows |-> <<>>]
    ELSE [raised |-> FALSE, rows |-> responseObj.rows]

\* nextToken = responseObj.get('nextPageToken')
NextToken(responseObj) ==
    IF "nextPageToken" \in responseObj.keys THEN responseObj.nextPageToken ELSE None

\* An endpointCaller that goes to the next key after the first response.
AfterResponse_IgnoresToken(fan, req, responseObj) ==
    IF fan.k < Len(fan.order)
    THEN [pc |-> "firstPage", k |-> fan.k + 1,
          request |-> fan.requests[fan.order[fan.k + 1]]]
    ELSE [pc |-> "logic", k |-> fan.k + 1, request |-> req]

\* An endpointCaller that asks for the same page again.
AfterResponse_RepeatsRequest(fan, req, responseObj) ==
    IF NextToken(responseObj) # None
    THEN [pc |-> "nextPage", k |-> fan.k, request |-> req]
    ELSE IF fan.k < Len(fan.order)
    THEN [pc |-> "firstPage", k |-> fan.k + 1,
          request |-> fan.requests[fan.order[fan.k + 1]]]
    ELSE [pc |-> "logic", k |-> fan.k + 1, request |-> req]

\* The position of endpointCaller after a response for key number k: the
\* while loop goes on with the returned token, else the for loop moves on.
AfterResponse(fan, req, responseObj) ==
    IF NextToken(responseObj) # None
    THEN [pc |-> "nextPage", k |-> fan.k,
          request |-> [req EXCEPT !.page_token = NextToken(responseObj)]]
    ELSE IF fan.k < Len(fan.order)
    THEN [pc |-> "firstPage", k |-> fan.k + 1,
          request |-> fan.requests[fan.order[fan.k + 1]]]
    ELSE [pc |-> "logic", k |-> fan.k + 1, request |-> req]

\* ---------------------------------------------------------------- logic tree
\* A logic node is a JSON object: `keys` are the keys it has; `id` and
\* `negate` are the values under those keys, `children` the list under its
\* "and" / "or" key.
Node(keys, id, negate, children) ==
    [keys |-> keys, id |-> id, negate |-> negate, children |-> children]
Ref(id) == Node({"id"}, id, FALSE, <<>>)
Not(id) == Node({"id", "negate"}, id, TRUE, <<>>)
Op(key, children) == Node({key}, "", FALSE, children)

\* Backend.getResponsePatientId for a row that carries its patientId.
getResponsePatientId(row) == row.patientId

\* Backend.getAllPatientId: the patient ids of ONE search of the patients
\* table, sent without page size and without page token: [err, ids]. The
\* response of a search that found nothing has no "patients" key.
PatientIdList(all_pt) ==
    IF all_pt.err # "none" THEN [err |-> all_pt.err, ids |-> {}]
    ELSE IF "patients" \notin all_pt.keys THEN [err |-> "KeyError", ids |-> {}]
    ELSE [err |-> "none",
          ids |-> {all_pt.rows[i].patientId : i \in 1..Len(all_pt.rows)}]

getAllPatientId ==
    PatientIdList(runSearchRequest(
                      [filters |-> <<>>, page_size |-> 0, page_token |-> <<>>],
                      "patients", patients, access_map,
                      defaultPageSize, maxResponseLength))

\* results_arr.sort(key=len): a stable insertion sort by cardinality.
RECURSIVE InsertByLen(_, _)
InsertByLen(sorted, x) ==
    IF sorted = <<>> THEN <<x>>
    ELSE IF Cardinality(x) < Cardinality(sorted[Len(sorted)])
    THEN Append(InsertByLen(SubSeq(sorted, 1, Len(sorted) - 1), x), sorted[Len(sorted)])
    ELSE Append(sorted, x)

RECURSIVE SortByLen(_)
SortByLen(arr) ==
    IF arr = <<>> THEN <<>>
    ELSE InsertByLen(SortByLen(SubSeq(arr, 1, Len(arr) - 1)), arr[Len(arr)])

\* An "and" branch whose membership test stops one set short.
AndBranch_SkipsLast(results_arr) ==
    LET sorted == SortByLen(results_arr)
    IN  {patient_id \in sorted[1] :
            \A x \in 2..(Len(sorted) - 1) : patient_id \in sorted[x]}

\* The "and" branch of logicHandler over the children's sets (at least one).
AndBranch(results_arr) ==
    LET sorted == SortByLen(results_arr)
    IN  {patient_id \in sorted[1] :
            \A x \in 2..Len(sorted) : patient_id \in sorted[x]}

\* The "or" branch of logicHandler over the children's sets.
OrBranch(results_arr) == UNION {results_arr[i] : i \in 1..Len(results_arr)}

\* The "id" branch of logicHandler: the join keys of the component's rows,
\* taken from the patient ids of getAllPatientId when negate is set. Every
\* KeyError inside it is reported as invalid logic.
Negated(id_set, id_list_all) ==
    IF id_list_all.err = "KeyError"
    THEN [err |-> "InvalidLogicException", set |-> {}]
    ELSE IF id_list_all.err # "none"
    THEN [err |-> id_list_all.err, set |-> {}]
    ELSE [err |-> "none", set |-> id_list_all.ids \ id_set]

IdBranch(id, logic_negate, resp) ==
    IF id \notin DOMAIN resp
    THEN [err |-> "InvalidLogicException", set |-> {}]
    ELSE IF ~logic_negate
    THEN [err |-> "none",
          set |-> {getResponsePatientId(resp[id][i]) : i \in 1..Len(resp[id])}]
    ELSE Negated({getResponsePatientId(resp[id][i]) : i \in 1..Len(resp[id])},
                 getAllPatientId)

\* Backend.logicHandler(logic, responses, dataset_id, access_map):
\* [err, set], the set being the patient ids the node selects.
\* kids are the results of the recursive calls for the children, in order.
LogicNode(logic, kids, resp) ==
    LET n == Cardinality(logic.keys)
        logic_key == IF n = 1 THEN CHOOSE k \in logic.keys : TRUE ELSE "id"
        logic_negate == n = 2 /\ logic.negate
        results_arr == [i \in 1..Len(kids) |-> kids[i].set]
    IN  IF n = 2 /\ logic.keys # {"id", "negate"}
        THEN [err |-> "InvalidLogicException", set |-> {}]
        ELSE IF n \notin {1, 2}
        THEN [err |-> "InvalidLogicException", set |-> {}]
        ELSE IF logic_key \in {"and", "or"}
        THEN IF \E i \in 1..Len(kids) : kids[i].err # "none"
             THEN LET first == CHOOSE i \in 1..Len(kids) :
                                  /\ kids[i].err # "none"
                                  /\ \A j \in 1..(i - 1) : kids[j].err = "none"
                  IN  [err |-> kids[first].err, set |-> {}]
             ELSE IF logic_key = "or"
             THEN [err |-> "none", set |-> OrBranch(results_arr)]
             ELSE IF Len(results_arr) = 0
             THEN [err |-> "IndexError", set |-> {}]
             ELSE [err |-> "none", set |-> AndBranch(results_arr)]
        ELSE IF logic_key = "id"
        THEN IdBranch(logic.id, logic_negate, resp)
        ELSE [err |-> "InvalidLogicException", set |-> {}]

RECURSIVE logicHandler(_, _)
logicHandler(logic, resp) ==
    LogicNode(logic,
              [i \in 1..Len(logic.children) |-> logicHandler(logic.children[i], resp)],
              resp)

\* ------------------------------------------------------------------ SpecGen
\* The generators applied to every list of at most MaxObjects objects and to
\* every page token a client can send: none, an integer in or out of range,
\* and malformed tokens.
IdleFilter == filters = Unused /\ obj = Unused /\ validated = Unused /\ qualified = Unused
IdleRepo ==
    /\ patients = Unused /\ samples = Unused /\ access_map = Unused
    /\ defaultPageSize = Unused /\ maxResponseLength = Unused
IdleSearch == request = Unused /\ response = Unused /\ collected = Unused /\ lookups = Unused
IdleQuery == query = Unused /\ responses = Unused /\ fanout = Unused /\ patient_list = Unused
IdleGen == objectList = Unused /\ page_token = Unused /\ generated = Unused
IdleResults == results = Unused /\ calls = Unused
IdleRegistry ==
    /\ _datasetIdMap = Unused /\ _datasetNameMap = Unused /\ _datasetIds = Unused
    /\ inserted = Unused /\ found = Unused
IdleUpdate == _openMode = Unused /\ database = Unused /\ update = Unused
IdleId == cid = Unused /\ givenId = Unused /\ parseResult = Unused
IdleAttr == attributes = Unused /\ callerTier = Unused /\ msg = Unused
IdlePages == pages = Unused
IdleClients == clients = Unused

GenLists ==
    UNION {[1..n -> [localId : {0}, patientId : {1}, age : 0..MaxAge, extra : {0}]]
           : n \in 0..MaxObjects}
\* The objects of a list carry their position as local id.
Numbered(list) == [i \in 1..Len(list) |-> [list[i] EXCEPT !.localId = i]]

GenTokens ==
    {<<>>, <<"x">>, <<"1", ":", "2">>, <<"-">>}
    \cup {str(i) : i \in (0 - MaxObjects - 1)..(MaxObjects + 1)}

InitGen ==
    /\ objectList \in {Numbered(l) : l \in GenLists}
    /\ page_token \in GenTokens
    /\ generated = [kind |-> "none", err |-> "none", items |-> <<>>]
    /\ pc = "start"
    /\ IdleFilter /\ IdleRepo /\ IdleSearch /\ IdleQuery /\ IdleResults
    /\ IdleRegistry /\ IdleUpdate /\ IdleId /\ IdleAttr /\ IdlePages /\ IdleClients

\* list(self._objectListGenerator(request, objectList, tier))
RunObjectListGenerator ==
    /\ pc = "start"
    /\ \E tier \in 0..1 :
         generated' = [kind |-> "topLevel"] @@ _objectListGenerator(page_token, objectList, tier)
    /\ pc' = "done"
    /\ UNCHANGED <<objectList, page_token, filterVars, repoVars, registryVars, updateVars, idVars, attrVars, pages, clients, resultVars, searchVars, queryVars>>

\* list(self._protocolListGenerator(request, objectList)), the list holding
\* protocol elements already
RunProtocolListGenerator ==
    /\ pc = "start"
    /\ generated' = [kind |-> "protocol"] @@
         _protocolListGenerator(page_token,
             [i \in 1..Len(objectList) |-> toProtocolElement(objectList[i], 0)])
    /\ pc' = "done"
    /\ UNCHANGED <<objectList, page_token, filterVars, repoVars, registryVars, updateVars, idVars, attrVars, pages, clients, resultVars, searchVars, queryVars>>

NextGen == RunObjectListGenerator \/ RunProtocolListGenerator

SpecGen == InitGen /\ [][NextGen]_vars

\* C2: a generator given N objects and a token decoding to start index s
\* (0 for the empty token) yields exactly the objects at indices s..N-1 in
\* that order, N - s of them when s <= N; the object at index i comes with
\* token str(i+1) when i+1 < N and with None when i+1 = N. (Stated for the
\* runs in which every fetch succeeded.)
C2_ResumableGenerator ==
    (pc = "done" /\ generated.err = "none") =>
        LET N == Len(objectList)
            s == StartIndex(page_token).values[1]
            items == generated.items
        IN  /\ Len(items) = IF s <= N THEN N - s ELSE 0
            /\ \A k \in 1..Len(items) :
                 LET i == s + k - 1
                     fetched == ListGet(objectList, i)
                 IN  /\ items[k].index = i
                     /\ items[k].object.id = fetched.localId
                     /\ items[k].object.age = fetched.age
                     /\ i + 1 < N => /\ items[k].nextPageToken = str(i + 1)
                                     /\ _parsePageToken(items[k].nextPageToken, 1).values
                                          = <<i + 1>>
                     /\ i + 1 = N => items[k].nextPageToken = None

\* C2 witness: resumed at index 1 of 3 objects, the generator yielded two
\* items, the last one without token.
C2_Witness ==
    /\ pc = "done" /\ generated.err = "none"
    /\ Len(objectList) = 3 /\ page_token = <<"1">>
    /\ Len(generated.items) = 2
    /\ generated.items[1].nextPageToken = <<"2">>
    /\ generated.items[2].nextPageToken = None

\* C27: a generator given a token that decodes to an integer outside
\* 0..N-1 (N or more, or negative) yields no object and no token; for every
\* token the indices fetched are in 0..N-1 and not below the token, and no
\* object is yielded twice.
C27_OutOfRangeTokens ==
    (pc = "done" /\ StartIndex(page_token).err = "none") =>
        LET N == Len(objectList)
            s == StartIndex(page_token).values[1]
            items == generated.items
        IN  /\ (s < 0 \/ s >= N) => items = <<>>
            /\ \A k \in 1..Len(items) :
                  /\ items[k].index \in 0..(N - 1)
                  /\ items[k].index >= s
            /\ \A j, k \in 1..Len(items) :
                  j # k => items[j].object.id # items[k].object.id

\* --------------------------------------------------------------- SpecFilter
\* The filter engine applied to filter lists of at most MaxFilters filters:
\* every combination of keys (with and without the membership operator), and
\* well-formed filters over known and unknown fields and operators.
Filter(keys, field, operator, value, values) ==
    [keys |-> keys,
     field |-> IF "field" \in keys THEN field ELSE "",
     operator |-> IF "operator" \in keys THEN operator ELSE "",
     value |-> IF "value" \in keys THEN value ELSE 0,
     values |-> IF "values" \in keys THEN values ELSE <<>>]

ShapeFilters ==
    {Filter(keys, "age", operator, 0, <<0, 0>>) :
        keys \in SUBSET FilterKeys, operator \in {"eq", "in"}}

ValueFilters ==
    {Filter({"field", "operator", "value"}, f[1], f[2], f[3], <<>>) :
        f \in {<<"age", "gt", 0>>, <<"age", "eq", 1>>, <<"age", "GT", 0>>,
               <<"age", "contains", 0>>, <<"age", "like", 0>>,
               <<"zzz", "eq", 0>>, <<"agee", "eq", 0>>}}

ValuesFilters ==
    {Filter({"field", "operator", "values"}, f[1], "in", 0, f[2]) :
        f \in {<<"age", <<1, 1>>>>, <<"age", <<0, 1>>>>, <<"zzz", <<0>>>>}}

RawFilters == ShapeFilters \cup ValueFilters \cup ValuesFilters

FilterLists == UNION {[1..n -> RawFilters] : n \in 0..MaxFilters}

InitFilter ==
    /\ filters \in FilterLists
    /\ obj \in [localId : {1}, patientId : {1}, age : 0..MaxAge, extra : {0}]
    /\ validated = [err |-> "none", message |-> "", filters |-> <<>>]
    /\ qualified = [err |-> "none", qualified |-> FALSE, lookups |-> 0]
    /\ pc = "start"
    /\ IdleGen /\ IdleRepo /\ IdleSearch /\ IdleQuery /\ IdleResults
    /\ IdleRegistry /\ IdleUpdate /\ IdleId /\ IdleAttr /\ IdlePages /\ IdleClients

\* filters = self.filtersValidator(request)
Validate ==
    /\ pc = "start"
    /\ validated' = filtersValidator(filters)
    /\ pc' = IF validated'.err = "none" THEN "validated" ELSE "raised"
    /\ UNCHANGED <<filters, obj, qualified, genVars, repoVars, registryVars, updateVars, idVars, attrVars, pages, clients, resultVars, searchVars, queryVars>>

\* qualified = self.comparisonGenerator(obj, filters)
Compare ==
    /\ pc = "validated"
    /\ qualified' = comparisonGenerator(obj, validated.filters)
    /\ pc' = IF qualified'.err = "none" THEN "done" ELSE "raised"
    /\ UNCHANGED <<filters, obj, validated, genVars, repoVars, registryVars, updateVars, idVars, attrVars, pages, clients, resultVars, searchVars, queryVars>>

NextFilter == Validate \/ Compare

SpecFilter == InitFilter /\ [][NextFilter]_vars

\* A filter as the data model defines well-formedness.
WellFormed(f) ==
    /\ {"field", "operator"} \subseteq f.keys
    /\ ("value" \in f.keys) # ("values" \in f.keys)
    /\ ("values" \in f.keys) <=> (f.operator = "in")

\* C3: filtersValidator accepts a filter list iff every filter has field and
\* operator and exactly one of value / values consistent with the operator
\* (membership with values, every other operator with value); every other
\* list is rejected with the bad-request error; the values of an accepted
\* membership filter are a set holding exactly the listed values.
C3_FilterValidation ==
    pc # "start" =>
        /\ (validated.err = "none") <=> (\A i \in 1..Len(filters) : WellFormed(filters[i]))
        /\ validated.err # "none" =>
              /\ validated.err = "BadRequestException"
              /\ pc = "raised"
        /\ validated.err = "none" =>
              /\ Len(validated.filters) = Len(filters)
              /\ \A i \in 1..Len(filters) :
                    /\ validated.filters[i].keys = filters[i].keys
                    /\ validated.filters[i].field = filters[i].field
                    /\ validated.filters[i].operator = filters[i].operator
                    /\ "values" \in filters[i].keys =>
                          /\ IsFiniteSet(validated.filters[i].values)
                          /\ \A x \in 0..MaxAge :
                                (x \in validated.filters[i].values)
                                  <=> (\E j \in 1..Len(filters[i].values) :
                                          filters[i].values[j] = x)

\* C3 witness: a list of a value filter and a membership filter with a
\* repeated value was accepted, and the repeated value is in the set once.
C3_Witness ==
    /\ pc = "validated" /\ Len(filters) = 2
    /\ "value" \in filters[1].keys
    /\ "values" \in filters[2].keys /\ filters[2].values = <<1, 1>>
    /\ validated.filters[2].values = {1}

\* Whether an object satisfies one validated filter, by the meaning of the
\* filter: membership for a values filter, else the named comparison.
Satisfies(o, f) ==
    LET v == IF f.field = "age" THEN o.age ELSE o.patientId
    IN  /\ f.field \in {"age", "patientId"}
        /\ IF "values" \in f.keys THEN v \in f.values
           ELSE CASE f.operator \in {">", "gt", "GT"} -> v > f.value
                  [] f.operator \in {"<", "lt"} -> v < f.value
                  [] f.operator \in {">=", "ge"} -> v >= f.value
                  [] f.operator \in {"<=", "le"} -> v <= f.value
                  [] f.operator \in {"eq", "=", "==", "EQ"} -> v = f.value
                  [] f.operator \in {"!=", "ne"} -> v # f.value
                  [] OTHER -> FALSE

\* list[:i-1] + list[i:]
Without(list, i) == SubSeq(list, 1, i - 1) \o SubSeq(list, i + 1, Len(list))

\* C5: comparisonGenerator(obj, filters) returns true iff obj satisfies every
\* filter of the list; removing one filter from a list never turns a match
\* into a non-match (or into an error).
C5_FilterConjunction ==
    pc = "done" =>
        /\ qualified.qualified <=>
              (\A i \in 1..Len(validated.filters) : Satisfies(obj, validated.filters[i]))
        /\ qualified.qualified =>
              \A i \in 1..Len(validated.filters) :
                 LET less == comparisonGenerator(obj, Without(validated.filters, i))
                 IN  less.err = "none" /\ less.qualified

\* C5 witness: an object failing a two-filter list only at its second filter,
\* which matches once that filter is removed.
C5_Witness ==
    /\ pc = "done" /\ Len(validated.filters) = 2
    /\ ~qualified.qualified
    /\ Satisfies(obj, validated.filters[1])
    /\ ~Satisfies(obj, validated.filters[2])
    /\ comparisonGenerator(obj, Without(validated.filters, 2)).qualified

\* --------------------------------------------------------------- SpecSearch
\* A client searching the patients of a dataset page by page: it starts with
\* an empty page token and re-issues the same request with each returned
\* nextPageToken.
Collections(table) ==
    UNION {[1..n -> [localId : {0}, patientId : {0}, age : 0..MaxAge, extra : 0..1]]
           : n \in 0..MaxObjects}

\* Patients are numbered in collection order; a patient's patientId is its own.
AsPatients(list) ==
    [i \in 1..Len(list) |-> [list[i] EXCEPT !.localId = i, !.patientId = i]]

AccessMaps == {<<>>, [d \in {DatasetName} |-> 0]}

SearchFilterLists ==
    {<<>>,
     <<Filter({"field", "operator", "value"}, "age", "eq", 1, <<>>)>>,
     <<Filter({"field", "operator", "value"}, "age", ">=", 0, <<>>),
       Filter({"field", "operator", "values"}, "age", "in", 0, <<0, 0>>)>>,
     <<Filter({"field", "operator", "value"}, "age", "in", 0, <<>>)>>,
     <<Filter({"field", "operator", "value"}, "age", "eq", 0, <<>>),
       Filter({"field", "operator", "value"}, "agee", "eq", 0, <<>>)>>,
     <<Filter({"field", "operator", "value"}, "age", "contains", 0, <<>>)>>}

InitSearch ==
    /\ patients \in {AsPatients(l) : l \in Collections("patients")}
    /\ samples = <<>>
    /\ access_map \in AccessMaps
    /\ defaultPageSize = 2
    /\ maxResponseLength \in {2, 2 * (MaxObjects + 1)}
    /\ request \in [filters : SearchFilterLists, page_size : (0 - 1)..MaxObjects,
                    page_token : {<<>>}]
    /\ response = Raised("none", 0)
    /\ collected = <<>>
    /\ lookups = 0
    /\ pc = "issue"
    /\ IdleGen /\ IdleFilter /\ IdleQuery /\ IdleResults
    /\ IdleRegistry /\ IdleUpdate /\ IdleId /\ IdleAttr /\ IdlePages /\ IdleClients

\* Backend.runSearchPatients(request, return_mimetype, access_map)
runSearchPatients ==
    /\ pc = "issue"
    /\ response' = runSearchRequest(request, "patients", patients, access_map,
                                    defaultPageSize, maxResponseLength)
    /\ lookups' = response'.lookups
    /\ collected' = collected \o response'.rows
    /\ pc' = IF response'.err # "none" THEN "raised"
             ELSE IF "nextPageToken" \in response'.keys THEN "more"
             ELSE "done"
    /\ UNCHANGED <<request, genVars, filterVars, repoVars, registryVars, updateVars, idVars, attrVars, pages, clients, resultVars, queryVars>>

\* The client copies the returned token into its next request.
FollowToken ==
    /\ pc = "more"
    /\ request' = [request EXCEPT !.page_token = response.nextPageToken]
    /\ pc' = "issue"
    /\ UNCHANGED <<response, collected, lookups, genVars, filterVars, repoVars, registryVars, updateVars, idVars, attrVars, pages, clients, resultVars, queryVars>>

NextSearch == runSearchPatients \/ FollowToken

SpecSearch == InitSearch /\ [][NextSearch]_vars

\* The objects of a collection that satisfy every filter of a validated list.
Matching(collection, fs) ==
    LET Test(o) == \A i \in 1..Len(fs) : Satisfies(o, fs[i])
    IN  SelectSeq(collection, Test)

IsPrefix(a, b) == Len(a) <= Len(b) /\ SubSeq(b, 1, Len(a)) = a

\* The wire forms of the patients matching the request's filters, in
\* collection order.
ExpectedRows ==
    LET m == Matching(patients, filtersValidator(request.filters).filters)
    IN  [i \in 1..Len(m) |-> toProtocolElement(m[i], 0)]

\* C1: following the returned tokens from an empty token until none is
\* returned yields exactly the matching objects, each once, without gaps, in
\* collection order, for every page size (and on the way what has been
\* received is a proper prefix of them).
C1_PaginationCoverage ==
    /\ pc = "done" => collected = ExpectedRows
    /\ pc = "more" => /\ IsPrefix(collected, ExpectedRows)
                      /\ Len(collected) < Len(ExpectedRows)
                      /\ Len(response.rows) >= 1

\* C1 witness: three matching patients were received in three pages of one.
C1_Witness ==
    /\ pc = "done" /\ request.page_size = 1
    /\ Len(collected) = 3 /\ request.page_token = <<"2">>

C29_FieldErrorsDataIndependent ==
    (/\ pc \in {"more", "done", "raised"}
     /\ request.page_size >= 0
     /\ DatasetName \in DOMAIN access_map
     /\ \A i \in 1..Len(request.filters) : WellFormed(request.filters[i])
     /\ \E i \in 1..Len(request.filters) : request.filters[i].field \notin ObjectAttr) =>
        /\ pc = "raised"
        /\ response.err \in {"BadFieldNameException", "BadFieldNameNoCloseMatchException"}

\* ---------------------------------------------------------------- SpecLogic
\* logicHandler applied to logic trees over two declared components c1 and
\* c2 (and an undeclared c9), for every pair of component results and every
\* number of patients up to MaxObjects, with a default page size below and
\* above the number of patients.
RECURSIVE SortedSeq(_)
SortedSeq(S) ==
    IF S = {} THEN <<>>
    ELSE LET least == CHOOSE x \in S : \A y \in S : x <= y
         IN  <<least>> \o SortedSeq(S \ {least})

\* Rows of a response, one per patient id of S.
RowsOf(S) ==
    LET ids == SortedSeq(S)
    IN  [i \in 1..Len(ids) |-> [id |-> ids[i], patientId |-> ids[i], age |-> 0, extra |-> 0]]

Kids == {Ref("c1"), Ref("c2"), Not("c1")}

LogicTrees ==
    Kids
    \cup {Not("c2"), Ref("c9"), Not("c9"), Node({"id", "negate"}, "c1", FALSE, <<>>),
          Op("and", <<Ref("c1"), Ref("c9")>>), Op("or", <<Ref("c9"), Ref("c1")>>),
          Node({}, "", FALSE, <<>>), Op("and", <<Ref("c1"), Node({}, "", FALSE, <<>>)>>),
          Node({"xor"}, "", FALSE, <<Ref("c1")>>), Node({"negate"}, "", TRUE, <<>>),
          Node({"id", "and"}, "c1", FALSE, <<Ref("c1")>>),
          Node({"and", "or"}, "", FALSE, <<Ref("c1")>>),
          Node({"id", "negate", "and"}, "c1", TRUE, <<Ref("c1")>>),
          Op("or", <<Op("and", <<>>), Ref("c9")>>),
          Op("or", <<Ref("c1"), Op("and", <<Ref("c2"), Node({"xor"}, "", FALSE, <<>>)>>)>>)}
    \cup {Op(key, children) :
            key \in {"and", "or"},
            children \in UNION {[1..n -> Kids] : n \in 0..MaxChildren}}
    \cup {Op(key, <<Op(inner, <<Ref("c1"), Ref("c2")>>), leaf>>) :
            key \in {"and", "or"}, inner \in {"and", "or"},
            leaf \in {Not("c1"), Ref("c2")}}

PatientsOfSize(n) ==
    [i \in 1..n |-> [localId |-> i, patientId |-> i, age |-> 0, extra |-> 0]]

InitLogic ==
    /\ patients \in {PatientsOfSize(n) : n \in 0..MaxObjects}
    /\ samples = <<>>
    /\ access_map = [d \in {DatasetName} |-> 0]
    /\ defaultPageSize \in {2, DefaultPageSize}
    /\ maxResponseLength = MaxResponseLength
    /\ responses \in [{"c1", "c2"} -> {RowsOf(S) : S \in SUBSET PatientIds}]
    /\ query \in [logic : LogicTrees]
    /\ fanout = Unused
    /\ patient_list = [err |-> "none", set |-> {}]
    /\ pc = "logic"
    /\ IdleGen /\ IdleFilter /\ IdleSearch /\ IdleResults
    /\ IdleRegistry /\ IdleUpdate /\ IdleId /\ IdleAttr /\ IdlePages /\ IdleClients

\* patient_list = self.logicHandler(logic, responses, dataset_id, access_map)
EvaluateLogic ==
    /\ pc = "logic"
    /\ patient_list' = logicHandler(query.logic, responses)
    /\ pc' = IF patient_list'.err = "none" THEN "results" ELSE "raised"
    /\ UNCHANGED <<query, responses, fanout, genVars, filterVars, repoVars, registryVars, updateVars, idVars, attrVars, pages, clients, resultVars, searchVars>>

NextLogic == EvaluateLogic

SpecLogic == InitLogic /\ [][NextLogic]_vars

JoinKeys(rows) == {rows[i].patientId : i \in 1..Len(rows)}

\* The patient ids of all patients of the dataset.
Universe == {patients[i].patientId : i \in 1..Len(patients)}

ChildOrders(n) == {f \in [1..n -> 1..n] : \A i, j \in 1..n : f[i] = f[j] => i = j}

\* The sets the children of the query's top node evaluate to, when none of
\* them raises.
ChildResults == [i \in 1..Len(query.logic.children) |->
                    logicHandler(query.logic.children[i], responses)]
ChildrenEvaluate ==
    LET child_results == ChildResults
    IN  \A i \in 1..Len(child_results) : child_results[i].err = "none"

\* C6: for an And node (with at least one child) logicHandler returns exactly
\* the intersection of its children's join-key sets, and the same set for
\* every permutation of the children.
C6_AndIsIntersection ==
    (pc # "logic" /\ query.logic.keys = {"and"} /\ Len(query.logic.children) >= 1
       /\ ChildrenEvaluate) =>
        /\ patient_list.err = "none"
        /\ LET child_results == ChildResults
           IN  patient_list.set =
                  {x \in PatientIds : \A i \in 1..Len(child_results) : x \in child_results[i].set}
        /\ \A f \in ChildOrders(Len(query.logic.children)) :
              logicHandler(
                  [query.logic EXCEPT !.children =
                      [i \in 1..Len(query.logic.children) |-> query.logic.children[f[i]]]],
                  responses) = patient_list

\* C6 witness: an And of two components with overlapping, different results
\* of the same size.
C6_Witness ==
    /\ pc = "results" /\ query.logic = Op("and", <<Ref("c1"), Ref("c2")>>)
    /\ JoinKeys(responses["c1"]) = {1, 2} /\ JoinKeys(responses["c2"]) = {2, 3}
    /\ patient_list.set = {2}

\* C7 (as claimed): an Or node yields the union of its children's sets, and
\* for a component result A (of patient ids of the dataset) and a component
\* result B = universe minus A, OR({A, B}) united with negate(A) is the whole
\* universe of the dataset's patient ids.
C7_OrNotCoversUniverse ==
    /\ (pc # "logic" /\ query.logic.keys = {"or"} /\ ChildrenEvaluate) =>
          /\ patient_list.err = "none"
          /\ LET child_results == ChildResults
             IN  patient_list.set = UNION {child_results[i].set : i \in 1..Len(child_results)}
    /\ (pc # "logic"
          /\ query.logic = Op("or", <<Op("or", <<Ref("c1"), Ref("c2")>>), Not("c1")>>)
          /\ JoinKeys(responses["c1"]) \subseteq Universe
          /\ JoinKeys(responses["c2"]) = Universe \ JoinKeys(responses["c1"])) =>
          /\ patient_list.err = "none"
          /\ patient_list.set = Universe

\* C8 (as claimed, on the datasets that have patients): a negated reference
\* to a declared component yields the patient ids of all patients of the
\* dataset minus the component's join keys, for any number of patients, also
\* for more patients than one search page holds.
C8_NegationUniverse ==
    (pc # "logic" /\ query.logic.keys = {"id", "negate"} /\ query.logic.negate
       /\ query.logic.id \in DOMAIN responses /\ patients # <<>>) =>
        /\ patient_list.err = "none"
        /\ patient_list.set = Universe \ JoinKeys(responses[query.logic.id])

\* The node shapes logicHandler evaluates.
WellShaped(node) == node.keys \in {{"id"}, {"and"}, {"or"}, {"id", "negate"}}

\* Some node that is reached through "and" / "or" lists has another shape, or
\* refers to a component that is not declared.
RECURSIVE HasBadNode(_)
HasBadNode(node) ==
    \/ ~WellShaped(node)
    \/ "id" \in node.keys /\ node.id \notin DOMAIN responses
    \/ /\ node.keys \in {{"and"}, {"or"}}
       /\ \E i \in 1..Len(node.children) : HasBadNode(node.children[i])

\* C15 (as claimed): logicHandler raises the invalid-logic error exactly for
\* the trees that hold a node of another shape than {id}, {and}, {or},
\* {id, negate}, or a reference to an undeclared component, and for no other
\* input.
C15_LogicShapeValidation ==
    pc # "logic" =>
        (patient_list.err = "InvalidLogicException" <=> HasBadNode(query.logic))

\* ------------------------------------------------------------ results stage
\* A JSON object of a response as json.loads reads it: `keys` are its keys,
\* `rows` the list under the key `table`, `nextPageToken` the token when the
\* key is there. A row is a function from its keys to its values.
Json(table, keys, rows, nextPageToken) ==
    [err |-> "none", keys |-> keys, table |-> table, rows |-> rows,
     nextPageToken |-> nextPageToken, lookups |-> 0]

\* A fieldHandler that keeps the rows whose restriction is empty.
fieldHandler_KeepsEmpty(table, json_results, field) ==
    LET Project(json_array, token) ==
            LET Restrict(entry) == [k \in DOMAIN entry \cap SetOf(field) |-> entry[k]]
                Respond(filtered_results) ==
                    Json(table,
                         (IF filtered_results # <<>> THEN {table} ELSE {})
                            \cup (IF token # None THEN {"nextPageToken"} ELSE {}),
                         filtered_results, token)
            IN  Respond([i \in 1..Len(json_array) |-> Restrict(json_array[i])])
    IN  Project(IF table \in json_results.keys THEN json_results.rows ELSE <<>>,
                IF "nextPageToken" \in json_results.keys /\ json_results.nextPageToken # <<>>
                THEN json_results.nextPageToken ELSE None)

\* Backend.fieldHandler(table, results, field)
fieldHandler(table, json_results, field) ==
    LET Project(json_array, token) ==
            LET Restrict(entry) == [k \in DOMAIN entry \cap SetOf(field) |-> entry[k]]
                NonEmpty(field_obj) == DOMAIN field_obj # {}
                Respond(filtered_results) ==
                    Json(table,
                         (IF filtered_results # <<>> THEN {table} ELSE {})
                            \cup (IF token # None THEN {"nextPageToken"} ELSE {}),
                         filtered_results, token)
            IN  Respond(SelectSeq([i \in 1..Len(json_array) |-> Restrict(json_array[i])],
                                  NonEmpty))
    IN  Project(IF table \in json_results.keys THEN json_results.rows ELSE <<>>,
                IF "nextPageToken" \in json_results.keys /\ json_results.nextPageToken # <<>>
                THEN json_results.nextPageToken ELSE None)

\* Backend.countHelper(table, fv_counts) with no epsilon configured.
countHelper(table, fv_counts) ==
    Json(table, {table}, IF DOMAIN fv_counts # {} THEN <<fv_counts>> ELSE <<>>, None)

\* Strings of row values are sequences of code points. a < b for two str:
\* the order list.sort() puts them in.
RECURSIVE StrLess(_, _)
StrLess(a, b) ==
    IF b = <<>> THEN FALSE
    ELSE IF a = <<>> THEN TRUE
    ELSE IF Head(a) # Head(b) THEN Head(a) < Head(b)
    ELSE StrLess(Tail(a), Tail(b))

\* v.sort() of a list of str
RECURSIVE list_sort(_)
list_sort(v) ==
    IF v = <<>> THEN <<>>
    ELSE LET Insert(x, sorted) ==
                 LET before == {i \in 1..Len(sorted) : ~StrLess(x, sorted[i])}
                 IN  SubSeq(sorted, 1, Cardinality(before)) \o <<x>>
                        \o SubSeq(sorted, Cardinality(before) + 1, Len(sorted))
         IN  Insert(Head(v), list_sort(Tail(v)))

\* ','.join(v): the comma is the code point 44
RECURSIVE comma_join(_)
comma_join(v) ==
    IF v = <<>> THEN <<>>
    ELSE IF Len(v) = 1 THEN v[1]
    ELSE v[1] \o <<44>> \o comma_join(Tail(v))

\* The fields whose values are lists (of str) in every row; the values of
\* the other fields are scalars. type(v) == list is decided by the field.
ListFields == {"sites"}

\* An aggregationHandler that joins the list values as they come.
aggregationHandler_NoSort(table, json_results, field) ==
    LET name == IF table = "variantsByGene" THEN "variants" ELSE table
        Bucket(k, v) == IF k \in ListFields THEN comma_join(v) ELSE v
        Count(json_array) ==
            LET met == {k \in SetOf(field) :
                           \E i \in 1..Len(json_array) : k \in DOMAIN json_array[i]}
                With(k) == {i \in 1..Len(json_array) : k \in DOMAIN json_array[i]}
            IN  [k \in met |->
                    [v \in {Bucket(k, json_array[i][k]) : i \in With(k)} |->
                        Cardinality({i \in With(k) : Bucket(k, json_array[i][k]) = v})]]
        WithToken(agg_results) ==
            IF "nextPageToken" \in json_results.keys
            THEN [agg_results EXCEPT !.keys = @ \cup {"nextPageToken"},
                                     !.nextPageToken = json_results.nextPageToken]
            ELSE agg_results
    IN  WithToken(countHelper(name,
                              Count(IF name \in json_results.keys
                                    THEN json_results.rows ELSE <<>>)))

\* An aggregationHandler that leaves the page's nextPageToken out.
aggregationHandler_DropsToken(table, json_results, field) ==
    LET name == IF table = "variantsByGene" THEN "variants" ELSE table
        Bucket(k, v) == IF k \in ListFields THEN comma_join(list_sort(v)) ELSE v
        Count(json_array) ==
            LET met == {k \in SetOf(field) :
                           \E i \in 1..Len(json_array) : k \in DOMAIN json_array[i]}
                With(k) == {i \in 1..Len(json_array) : k \in DOMAIN json_array[i]}
            IN  [k \in met |->
                    [v \in {Bucket(k, json_array[i][k]) : i \in With(k)} |->
                        Cardinality({i \in With(k) : Bucket(k, json_array[i][k]) = v})]]
    IN  countHelper(name, Count(IF name \in json_results.keys
                                THEN json_results.rows ELSE <<>>))

\* Backend.aggregationHandler(table, results, field): per requested field
\* met in the rows, the number of rows per value; a list value is sorted and
\* joined with commas and counted under that string.
aggregationHandler(table, json_results, field) ==
    LET name == IF table = "variantsByGene" THEN "variants" ELSE table
        Bucket(k, v) == IF k \in ListFields THEN comma_join(list_sort(v)) ELSE v
        Count(json_array) ==
            LET met == {k \in SetOf(field) :
                           \E i \in 1..Len(json_array) : k \in DOMAIN json_array[i]}
                With(k) == {i \in 1..Len(json_array) : k \in DOMAIN json_array[i]}
            IN  [k \in met |->
                    [v \in {Bucket(k, json_array[i][k]) : i \in With(k)} |->
                        Cardinality({i \in With(k) : Bucket(k, json_array[i][k]) = v})]]
        WithToken(agg_results) ==
            IF "nextPageToken" \in json_results.keys
            THEN [agg_results EXCEPT !.keys = @ \cup {"nextPageToken"},
                                     !.nextPageToken = json_results.nextPageToken]
            ELSE agg_results
    IN  WithToken(countHelper(name,
                              Count(IF name \in json_results.keys
                                    THEN json_results.rows ELSE <<>>)))

\* The keys of self.endpointMapper that the model has tables for. (Neither
\* "variants" nor "variantsByGene" is a key of self.endpointMapper.)
EndpointNames == {"patients", "samples"}

\* One entry of the results section of a query: `keys` are the keys it has.
ResultsEntry(keys, table, fields) ==
    [keys |-> keys,
     table |-> IF "table" \in keys THEN table ELSE "",
     fields |-> IF "fields" \in keys THEN fields ELSE <<>>]

\* The request resultsHandler sends to the endpoint of the results table.
FinalRequest_NoFilter(patient_set, token) ==
    [filters |-> <<>>,
     page_size |-> 0,
     page_token |-> IF token # None /\ token # <<>> THEN token ELSE <<>>]

\* The request resultsHandler sends to the endpoint of the results table:
\* patientId in patient_list, and the caller's page token when it has one.
FinalRequest(patient_set, token) ==
    [filters |-> <<Filter({"field", "operator", "values"}, "patientId", "in", 0,
                          SortedSeq(patient_set))>>,
     page_size |-> 0,
     page_token |-> IF token # None /\ token # <<>> THEN token ELSE <<>>]

Returned(json, called) == [results |-> json, calls |-> called]

\* A resultsHandler without the check for an empty patient list.
resultsHandler_NoShortCircuit(results_, patient_set, count, responseObj) ==
    LET Shape(table, field) ==
            LET Normalise(json) ==
                    IF json.keys = {} THEN Json(table, {table}, <<>>, None) ELSE json
            IN  IF responseObj.err # "none"
                THEN Returned(Raised(responseObj.err, 0), {"endpoint"})
                ELSE IF count
                THEN Returned(Normalise(aggregationHandler(table, responseObj, field)),
                              {"endpoint", "aggregationHandler"})
                ELSE IF field # <<>>
                THEN Returned(Normalise(fieldHandler(table, responseObj, field)),
                              {"endpoint", "fieldHandler"})
                ELSE Returned(Normalise(responseObj), {"endpoint"})
        Handle(entry) ==
            IF count /\ entry.fields = <<>>
            THEN Returned(Raised("MissingFieldNameException", 0), {})
            ELSE IF "table" \notin entry.keys
            THEN Returned(Raised("MissingFieldNameException", 0), {})
            ELSE IF entry.table \notin EndpointNames
            THEN Returned(Raised("MissingFieldNameException", 0), {})
            ELSE IF entry.table \in {"variantsByGene", "variants"}
            THEN Returned(Raised("variantsResultsHandler", 0), {"variantsResultsHandler"})
            ELSE Shape(entry.table, entry.fields)
    IN  IF results_ = <<>> THEN Returned(Raised("IndexError", 0), {})
        ELSE Handle(results_[1])

\* Backend.resultsHandler(results, patient_list, ..., count), given what the
\* endpoint of the results table answers if it is called (responseObj):
\* the returned JSON (or the error raised) and the handlers called. The
\* branch for the variant tables is not reached (variantsResultsHandler is
\* not part of the model): neither name passes the endpointMapper check.
resultsHandler(results_, patient_set, count, responseObj) ==
    LET Shape(table, field) ==
            LET Normalise(json) ==
                    IF json.keys = {} THEN Json(table, {table}, <<>>, None) ELSE json
            IN  IF responseObj.err # "none"
                THEN Returned(Raised(responseObj.err, 0), {"endpoint"})
                ELSE IF count
                THEN Returned(Normalise(aggregationHandler(table, responseObj, field)),
                              {"endpoint", "aggregationHandler"})
                ELSE IF field # <<>>
                THEN Returned(Normalise(fieldHandler(table, responseObj, field)),
                              {"endpoint", "fieldHandler"})
                ELSE Returned(Normalise(responseObj), {"endpoint"})
        Handle(entry) ==
            IF count /\ entry.fields = <<>>
            THEN Returned(Raised("MissingFieldNameException", 0), {})
            ELSE IF "table" \notin entry.keys
            THEN Returned(Raised("MissingFieldNameException", 0), {})
            ELSE IF entry.table \notin EndpointNames
            THEN Returned(Raised("MissingFieldNameException", 0), {})
            ELSE IF patient_set = {}
            THEN Returned(Json(IF entry.table = "variantsByGene" THEN "variants"
                               ELSE entry.table,
                               {IF entry.table = "variantsByGene" THEN "variants"
                                ELSE entry.table},
                               <<>>, None),
                          {})
            ELSE IF entry.table \in {"variantsByGene", "variants"}
            THEN Returned(Raised("variantsResultsHandler", 0), {"variantsResultsHandler"})
            ELSE Shape(entry.table, entry.fields)
    IN  IF results_ = <<>> THEN Returned(Raised("IndexError", 0), {})
        ELSE Handle(results_[1])

\* ---------------------------------------------------------------- SpecQuery
\* An advanced query over a dataset with patients and samples: the
\* components are parsed, every component's endpoint is called page by page,
\* then the logic tree is evaluated over the collected responses. A handler
\* returns its response or fails for a reason of its own ("Exception").
QueryPatients ==
    UNION {[1..n -> [localId : {0}, patientId : {0}, age : 0..1, extra : {0}]]
           : n \in 0..MaxObjects}

QuerySamples ==
    {[i \in 1..Len(l) |-> [l[i] EXCEPT !.localId = i]] :
        l \in UNION {[1..n -> [localId : {0}, patientId : 1..2, age : {0}, extra : {0}]]
                     : n \in 0..2}}

ComponentLists ==
    {<<>>,
     <<Component("c1", "patients", FALSE, <<>>)>>,
     <<Component("c1", "patients", TRUE,
                 <<Filter({"field", "operator", "value"}, "age", "eq", 1, <<>>)>>),
       Component("c2", "samples", FALSE, <<>>)>>,
     <<Component("c1", "samples", TRUE,
                 <<Filter({"field", "operator", "value"}, "age", "in", 0, <<>>)>>),
       Component("c2", "patients", FALSE, <<>>)>>,
     <<Component("c2", "samples", FALSE, <<>>),
       Component("c1", "patients", TRUE,
                 <<Filter({"field", "operator", "value"}, "agee", "eq", 0, <<>>)>>)>>,
     <<Component("c1", "variants", FALSE, <<>>)>>,
     <<[Component("c1", "patients", FALSE, <<>>) EXCEPT !.keys = {"id"}]>>,
     <<[Component("c1", "patients", FALSE, <<>>) EXCEPT !.keys = {"patients", "samples"}]>>}

QueryLogics ==
    {Ref("c1"), Op("and", <<Ref("c1"), Ref("c2")>>), Op("or", <<Not("c1"), Ref("c2")>>)}

\* The engine has received a query: nothing of it is handled yet.
Received ==
    /\ responses = <<>>
    /\ fanout = [order |-> <<>>, idMapper |-> <<>>, requests |-> <<>>, k |-> 0]
    /\ patient_list = [err |-> "none", set |-> {}]
    /\ request = [filters |-> <<>>, page_size |-> 0, page_token |-> <<>>]
    /\ response = Raised("none", 0)
    /\ results = Raised("none", 0)
    /\ calls = {}
    /\ pc = "components"

InitQuery ==
    /\ patients \in {AsPatients(l) : l \in QueryPatients}
    /\ samples \in QuerySamples
    /\ access_map \in AccessMaps
    /\ defaultPageSize \in {1, DefaultPageSize}
    /\ maxResponseLength \in {1, MaxResponseLength}
    /\ query \in [components : ComponentLists, logic : QueryLogics,
                   results : {<<ResultsEntry({"table"}, "patients", <<>>)>>},
                   pageToken : {None}, count : {FALSE}]
    /\ Received
    /\ collected = <<>>
    /\ lookups = 0
    /\ IdleGen /\ IdleFilter
    /\ IdleRegistry /\ IdleUpdate /\ IdleId /\ IdleAttr /\ IdlePages /\ IdleClients

\* A componentsHandler that hands the caller's page token to the component
\* searches.
ComponentsHandler_PassesToken ==
    /\ pc = "components"
    /\ LET parsed == componentsHandler(query.components)
           WithToken(req) ==
               [req EXCEPT !.page_token = IF query.pageToken # None
                                          THEN query.pageToken ELSE <<>>]
       IN  IF parsed.err # "none"
           THEN /\ response' = Raised(parsed.err, 0)
                /\ pc' = "raised"
                /\ UNCHANGED <<fanout, request>>
           ELSE /\ fanout' = [order |-> parsed.order, idMapper |-> parsed.idMapper,
                              requests |-> [id \in DOMAIN parsed.requests |->
                                               WithToken(parsed.requests[id])],
                              k |-> 1]
                /\ IF parsed.order = <<>>
                   THEN pc' = "logic" /\ UNCHANGED request
                   ELSE pc' = "firstPage"
                        /\ request' = WithToken(parsed.requests[parsed.order[1]])
                /\ UNCHANGED response
    /\ UNCHANGED <<query, responses, patient_list, collected, lookups,
                   genVars, filterVars, repoVars, registryVars, updateVars, idVars, attrVars, pages, clients, resultVars>>

\* Backend.componentsHandler: the loop over the components, then the entry
\* into endpointCaller with responses = {}.
ComponentsHandler ==
    /\ pc = "components"
    /\ LET parsed == componentsHandler(query.components)
       IN  IF parsed.err # "none"
           THEN /\ response' = Raised(parsed.err, 0)
                /\ pc' = "raised"
                /\ UNCHANGED <<fanout, request>>
           ELSE /\ fanout' = [order |-> parsed.order, idMapper |-> parsed.idMapper,
                              requests |-> parsed.requests, k |-> 1]
                /\ IF parsed.order = <<>>
                   THEN pc' = "logic" /\ UNCHANGED request
                   ELSE pc' = "firstPage" /\ request' = parsed.requests[parsed.order[1]]
                /\ UNCHANGED response
    /\ UNCHANGED <<query, responses, patient_list, collected, lookups,
                   genVars, filterVars, repoVars, registryVars, updateVars, idVars, attrVars, pages, clients, resultVars>>

\* endpointCaller, the first call for a key and what follows it up to the
\* next call of a handler.
CallFirstPage ==
    /\ pc = "firstPage"
    /\ \E responseObj \in {endpointMapper(fanout.idMapper[fanout.order[fanout.k]], request),
                          Raised("Exception", 0)} :
        LET key == fanout.order[fanout.k]
            endpoint == fanout.idMapper[key]
            outcome == FirstPageOutcome(endpoint, responseObj)
            after == AfterResponse(fanout, request, responseObj)
        IN  /\ response' = responseObj
            /\ IF outcome.raised
               THEN pc' = "raised" /\ UNCHANGED <<responses, fanout, request>>
               ELSE /\ responses' = [id \in DOMAIN responses \cup {key} |->
                                        IF id = key THEN outcome.rows ELSE responses[id]]
                    /\ pc' = after.pc
                    /\ fanout' = [fanout EXCEPT !.k = after.k]
                    /\ request' = after.request
    /\ UNCHANGED <<query, patient_list, collected, lookups, genVars, filterVars, repoVars, registryVars, updateVars, idVars, attrVars, pages, clients, resultVars>>

\* endpointCaller, one turn of the while loop.
CallNextPage ==
    /\ pc = "nextPage"
    /\ \E nextPageRequest \in {endpointMapper(fanout.idMapper[fanout.order[fanout.k]],
                                                request),
                              Raised("Exception", 0)} :
        LET key == fanout.order[fanout.k]
            endpoint == fanout.idMapper[key]
            outcome == NextPageOutcome(endpoint, nextPageRequest)
            after == AfterResponse(fanout, request, nextPageRequest)
        IN  /\ response' = nextPageRequest
            /\ IF outcome.raised
               THEN pc' = "raised" /\ UNCHANGED <<responses, fanout, request>>
               ELSE /\ responses' = [responses EXCEPT ![key] = @ \o outcome.rows]
                    /\ pc' = after.pc
                    /\ fanout' = [fanout EXCEPT !.k = after.k]
                    /\ request' = after.request
    /\ UNCHANGED <<query, patient_list, collected, lookups, genVars, filterVars, repoVars, registryVars, updateVars, idVars, attrVars, pages, clients, resultVars>>

\* return self.resultsHandler(results, patient_list, ..., page_token, count),
\* the call of the results table's endpoint included. The rows the endpoint
\* answers are added to `collected`.
ResultsHandler ==
    /\ pc = "results"
    /\ \E responseObj \in {endpointMapper(IF query.results = <<>> THEN ""
                                          ELSE query.results[1].table,
                                          FinalRequest(patient_list.set, query.pageToken)),
                          Raised("Exception", 0)} :
        LET Finish(returned) ==
                /\ results' = returned.results
                /\ calls' = returned.calls
                /\ pc' = IF returned.results.err # "none" THEN "raised" ELSE "returned"
                /\ IF "endpoint" \in returned.calls
                   THEN /\ request' = FinalRequest(patient_list.set, query.pageToken)
                        /\ response' = responseObj
                        /\ collected' = collected \o responseObj.rows
                   ELSE UNCHANGED <<request, response, collected>>
        IN  Finish(resultsHandler(query.results, patient_list.set, query.count,
                                  responseObj))
    /\ UNCHANGED <<query, responses, fanout, patient_list, lookups,
                   genVars, filterVars, repoVars, registryVars, updateVars, idVars, attrVars, pages, clients>>

\* The client sends the same query again with the returned nextPageToken as
\* its pageToken.
FollowQueryToken ==
    /\ pc = "returned"
    /\ "nextPageToken" \in results.keys
    /\ query' = [query EXCEPT !.pageToken = results.nextPageToken]
    /\ responses' = <<>>
    /\ fanout' = [order |-> <<>>, idMapper |-> <<>>, requests |-> <<>>, k |-> 0]
    /\ patient_list' = [err |-> "none", set |-> {}]
    /\ request' = [filters |-> <<>>, page_size |-> 0, page_token |-> <<>>]
    /\ response' = Raised("none", 0)
    /\ results' = Raised("none", 0)
    /\ calls' = {}
    /\ pc' = "components"
    /\ UNCHANGED <<collected, lookups, genVars, filterVars, repoVars, registryVars, updateVars, idVars, attrVars, pages, clients>>

NextQuery ==
    \/ ComponentsHandler \/ CallFirstPage \/ CallNextPage \/ EvaluateLogic
    \/ ResultsHandler \/ FollowQueryToken

SpecQuery == InitQuery /\ [][NextQuery]_vars

\* The results stage over more results sections: the tables of the model,
\* names that are no endpoint, with and without a fields list, in search and
\* in count mode; the logic trees give empty and non-empty joins.
ResultsSections ==
    {<<>>,
     <<ResultsEntry({"table"}, "patients", <<>>)>>,
     <<ResultsEntry({"table", "fields"}, "patients", <<>>)>>,
     <<ResultsEntry({"table", "fields"}, "patients", <<"age">>)>>,
     <<ResultsEntry({"table", "fields"}, "patients", <<"zzz">>)>>,
     <<ResultsEntry({"table"}, "samples", <<>>)>>,
     <<ResultsEntry({"table", "fields"}, "samples", <<"patientId", "age", "zzz">>)>>,
     <<ResultsEntry({"fields"}, "", <<"age">>)>>,
     <<ResultsEntry({"table"}, "variantsByGene", <<>>)>>,
     <<ResultsEntry({"table", "fields"}, "variantsByGene", <<"age">>)>>,
     <<ResultsEntry({"table"}, "variants", <<>>)>>,
     <<ResultsEntry({"table", "fields"}, "nosuch", <<"age">>)>>}

ResultsComponents ==
    {<<Component("c1", "patients", FALSE, <<>>)>>,
     <<Component("c1", "patients", TRUE,
                 <<Filter({"field", "operator", "value"}, "age", "eq", 1, <<>>)>>),
       Component("c2", "samples", FALSE, <<>>)>>}

InitResults ==
    /\ patients \in {AsPatients(l) : l \in QueryPatients}
    /\ samples \in {l \in QuerySamples : Len(l) # 1}
    /\ access_map \in AccessMaps
    /\ defaultPageSize \in {1, DefaultPageSize}
    /\ maxResponseLength = MaxResponseLength
    /\ query \in [components : ResultsComponents, logic : QueryLogics,
                   results : ResultsSections, pageToken : {None}, count : BOOLEAN]
    /\ Received
    /\ collected = <<>>
    /\ lookups = 0
    /\ IdleGen /\ IdleFilter
    /\ IdleRegistry /\ IdleUpdate /\ IdleId /\ IdleAttr /\ IdlePages /\ IdleClients

SpecResults == InitResults /\ [][NextQuery]_vars

\* endpointCaller has returned.
FanoutDone ==
    \/ pc \in {"logic", "results", "returned"}
    \/ pc = "raised" /\ (patient_list.err # "none" \/ results.err # "none")

\* The wire forms of the objects matching a component's filters, in
\* collection order.
ComponentRows(component) ==
    LET collection == IF component.endpoint = "patients" THEN patients ELSE samples
        m == Matching(collection, filtersValidator(component.filters).filters)
    IN  [i \in 1..Len(m) |-> toProtocolElement(m[i], 0)]

ComponentOf(id) == LastWithId(query.components, id)

\* C9: every call of the while loop carries the token of the previous
\* response, what is accumulated for the current component is a proper
\* prefix of its matching rows, the components already left are complete,
\* and when endpointCaller returns responses[id] is exactly the matching
\* rows of every declared component, in order, for every default page size
\* and byte budget.
C9_FanoutCompleteness ==
    /\ FanoutDone =>
          \A i \in 1..Len(query.components) :
              /\ query.components[i].id \in DOMAIN responses
              /\ responses[query.components[i].id] = ComponentRows(query.components[i])
    /\ pc \in {"firstPage", "nextPage"} =>
          \A j \in 1..(fanout.k - 1) :
              responses[fanout.order[j]] = ComponentRows(ComponentOf(fanout.order[j]))
    /\ pc = "nextPage" =>
          LET key == fanout.order[fanout.k]
          IN  /\ request = [fanout.requests[key] EXCEPT !.page_token = response.nextPageToken]
              /\ response.nextPageToken # None
              /\ IsPrefix(responses[key], ComponentRows(ComponentOf(key)))
              /\ Len(responses[key]) < Len(ComponentRows(ComponentOf(key)))

\* C9 witness: two components were both collected over several pages of one
\* row.
C9_Witness ==
    /\ FanoutDone /\ defaultPageSize = 1
    /\ Len(query.components) = 2
    /\ "c1" \in DOMAIN responses /\ Len(responses["c1"]) >= 2
    /\ "c2" \in DOMAIN responses /\ Len(responses["c2"]) = 2

\* C10: a handler that fails, on a first or on a later page, makes the query
\* raise; when endpointCaller returns every declared component is in
\* responses, and an empty responses[id] belongs to a component whose search
\* succeeds and matches no row.
C10_NoSilentComponentLoss ==
    /\ response.err # "none" => pc = "raised"
    /\ FanoutDone =>
          \A i \in 1..Len(query.components) :
              LET component == query.components[i]
              IN  /\ component.id \in DOMAIN responses
                  /\ endpointMapper(component.endpoint,
                                    fanout.requests[component.id]).err = "none"
                  /\ responses[component.id] = <<>> => ComponentRows(component) = <<>>

\* C10 witness: the handler failed on a later page of the second component,
\* after the first component had been collected, and the query raised.
C10_Witness ==
    /\ pc = "raised" /\ response.err = "Exception"
    /\ fanout.k = 2 /\ request.page_token # <<>>
    /\ DOMAIN responses = {"c1", "c2"}

\* --------------------------------------------------- claims on the results stage
\* resultsHandler has returned or raised.
ResultsDone == pc = "returned" \/ (pc = "raised" /\ results.err # "none")

\* results[0] names a table that is a key of endpointMapper.
TableIsEndpoint ==
    /\ query.results # <<>>
    /\ "table" \in query.results[1].keys
    /\ query.results[1].table \in EndpointNames

EmptyTable(table) == Json(table, {table}, <<>>, None)

C12_DeprecatedAliasRewrite ==
    /\ (/\ ResultsDone /\ patient_list.set = {} /\ query.results # <<>>
        /\ query.results[1].table = "variantsByGene"
        /\ ~(query.count /\ query.results[1].fields = <<>>)) =>
           pc = "returned" /\ results.keys = {"variants"}
    /\ "variantsByGene" \notin results.keys

\* The rows of the results table whose patientId is in S, as the table's
\* endpoint serializes them, in collection order.
TableRows(table, S) ==
    LET InS(o) == o.patientId \in S
        m == SelectSeq(IF table = "patients" THEN patients ELSE samples, InS)
    IN  [i \in 1..Len(m) |-> toProtocolElement(m[i], 0)]

\* C16: when resultsHandler searches the results table for a non-empty
\* join-key set S, every row the table's endpoint answers has its patientId
\* in S (in search mode without fields the returned response is that
\* answer), and following nextPageToken from an absent pageToken the pages
\* are, without gap or repetition, the rows of the table whose patientId is
\* in S: all of them when no token is returned.
C16_FinalRowsHonourJoin ==
    (pc = "returned" /\ "endpoint" \in calls) =>
        LET S == patient_list.set
            expected == TableRows(query.results[1].table, S)
        IN  /\ S # {}
            /\ request.filters = <<Filter({"field", "operator", "values"}, "patientId",
                                          "in", 0, SortedSeq(S))>>
            /\ \A i \in 1..Len(response.rows) : response.rows[i].patientId \in S
            /\ (~query.count /\ query.results[1].fields = <<>>) =>
                  /\ results.rows = response.rows
                  /\ results.keys \ {query.results[1].table} = response.keys \ {query.results[1].table}
                  /\ results.nextPageToken = response.nextPageToken
            /\ ("nextPageToken" \in results.keys) = ("nextPageToken" \in response.keys)
            /\ IsPrefix(collected, expected)
            /\ IF "nextPageToken" \in results.keys
               THEN Len(collected) < Len(expected)
               ELSE collected = expected

\* C16 witness: the join of a dataset with three patients is {1, 3}; the
\* two rows came on two pages, the second one asked for with the token of
\* the first.
C16_Witness ==
    /\ pc = "returned" /\ "endpoint" \in calls
    /\ patient_list.set = {1, 3} /\ Len(patients) = 3
    /\ query.results[1].table = "patients" /\ ~query.count
    /\ query.pageToken # None
    /\ Len(collected) = 2 /\ "nextPageToken" \notin results.keys

\* C19 (as claimed): a response that resultsHandler returns has the table
\* key (mapped to [] when the search, the projection or the aggregation
\* left no row).
C19_EmptyResultNormalization ==
    pc = "returned" =>
        /\ query.results[1].table \in results.keys
        /\ results.table = query.results[1].table

\* -------------------------------------------------------------- SpecProject
\* fieldHandler applied to the responses an endpoint can answer: up to
\* MaxRows rows, each with some of the keys "patientId" and "age" (a
\* serialized row leaves out the attributes that are not set), with and
\* without nextPageToken, and to fields lists with known, unknown and
\* repeated names.
JsonRows == UNION {[K -> 0..1] : K \in SUBSET {"patientId", "age"}}

FieldLists ==
    {<<"age">>, <<"zzz">>, <<"patientId", "age">>, <<"age", "zzz", "age">>, <<"id">>}

InitProject ==
    /\ query \in [results : {<<ResultsEntry({"table", "fields"}, "patients", f)>> :
                                f \in FieldLists}]
    /\ \E rows \in UNION {[1..n -> JsonRows] : n \in 0..MaxRows}, token \in {None, <<"1">>} :
          response = SerializedResponse("patients", rows, token)
    /\ results = Raised("none", 0)
    /\ calls = {}
    /\ pc = "project"
    /\ request = Unused /\ collected = Unused /\ lookups = Unused
    /\ responses = Unused /\ fanout = Unused /\ patient_list = Unused
    /\ IdleGen /\ IdleFilter /\ IdleRepo
    /\ IdleRegistry /\ IdleUpdate /\ IdleId /\ IdleAttr /\ IdlePages /\ IdleClients

\* results = self.fieldHandler(table, results, field)
RunFieldHandler ==
    /\ pc = "project"
    /\ results' = fieldHandler(query.results[1].table, response, query.results[1].fields)
    /\ calls' = {"fieldHandler"}
    /\ pc' = "projected"
    /\ UNCHANGED <<query, responses, fanout, patient_list, searchVars,
                   genVars, filterVars, repoVars, registryVars, updateVars, idVars, attrVars, pages, clients>>

NextProject == RunFieldHandler

SpecProject == InitProject /\ [][NextProject]_vars

\* The indices of the input rows that have a key of the fields list, and the
\* j-th of them.
KeptRows == {i \in 1..Len(response.rows) :
                DOMAIN response.rows[i] \cap SetOf(query.results[1].fields) # {}}
KeptRow(j) == CHOOSE i \in KeptRows : Cardinality({x \in KeptRows : x < i}) = j - 1

\* C20: fieldHandler returns, in input order, one row for each input row
\* that has a key of the fields list, with exactly the input row's keys that
\* are in the fields list and the input row's values for them; the rows
\* without such a key are left out; the input's nextPageToken is carried
\* over unchanged, and the output has no other key than the table (when
\* rows remain) and nextPageToken (when the input has it).
C20_Projection ==
    pc = "projected" =>
        /\ Len(results.rows) = Cardinality(KeptRows)
        /\ \A j \in 1..Len(results.rows) :
              /\ DOMAIN results.rows[j]
                    = DOMAIN response.rows[KeptRow(j)] \cap SetOf(query.results[1].fields)
              /\ \A k \in DOMAIN results.rows[j] :
                    results.rows[j][k] = response.rows[KeptRow(j)][k]
        /\ results.err = "none"
        /\ results.keys = (IF KeptRows # {} THEN {"patients"} ELSE {})
                            \cup (response.keys \cap {"nextPageToken"})
        /\ "nextPageToken" \in response.keys =>
              results.nextPageToken = response.nextPageToken

\* C20 witness: of two rows the first had no key of the fields list and was
\* left out, the second lost a key and kept the other with its value, and
\* the token was carried over.
C20_Witness ==
    /\ pc = "projected"
    /\ query.results[1].fields = <<"age">>
    /\ Len(response.rows) = 2
    /\ DOMAIN response.rows[1] = {"patientId"}
    /\ DOMAIN response.rows[2] = {"patientId", "age"}
    /\ Len(results.rows) = 1 /\ DOMAIN results.rows[1] = {"age"}
    /\ results.rows[1]["age"] = 1
    /\ results.keys = {"patients", "nextPageToken"} /\ results.nextPageToken = <<"1">>

\* ------------------------------------------------------- compound identifiers
\* The strings of identifiers are sequences of code points and the encoded
\* data are sequences of bytes, so that the escaping, the JSON reading and
\* the base64 coding are computed.
ord(c) ==
    CASE c = "\"" -> 34 [] c = "," -> 44 [] c = "[" -> 91 [] c = "]" -> 93
      [] c = "\\" -> 92 [] c = "=" -> 61 [] c = "/" -> 47 [] c = "+" -> 43
      [] c = "-" -> 45 [] c = "_" -> 95 [] c = " " -> 32 [] c = "!" -> 33
      [] c = "{" -> 123 [] c = "}" -> 125 [] c = ":" -> 58
      [] c = "0" -> 48 [] c = "1" -> 49 [] c = "5" -> 53 [] c = "9" -> 57
      [] c = "A" -> 65 [] c = "Z" -> 90 [] c = "a" -> 97 [] c = "z" -> 122
      [] c = "b" -> 98 [] c = "f" -> 102 [] c = "n" -> 110 [] c = "r" -> 114
      [] c = "t" -> 116 [] c = "u" -> 117 [] c = "p" -> 112 [] c = "e" -> 101
      [] c = "l" -> 108 [] c = "s" -> 115 [] c = "E" -> 69 [] c = "." -> 46
      [] c = "N" -> 78 [] c = "I" -> 73 [] c = "W" -> 87 [] c = "J" -> 74
      [] c = "F" -> 70 [] c = "d" -> 100 [] c = "h" -> 104 [] c = "w" -> 119
      [] c = "Q" -> 81 [] c = "m" -> 109 [] c = "i" -> 105 [] c = "y" -> 121
      [] c = "X" -> 88 [] c = "C" -> 67 [] c = "3" -> 51 [] c = "V" -> 86
      [] c = "B" -> 66 [] c = "c" -> 99 [] c = "D" -> 68 [] c = "q" -> 113
      [] c = "S" -> 83 [] c = "L" -> 76 [] c = "Y" -> 89 [] c = "x" -> 120
      [] c = "é" -> 233 [] c = "T" -> 84

\* A string literal as code points.
Text(chars) == [i \in 1..Len(chars) |-> ord(chars[i])]

\* idStr.encode('utf-8') for code points below 2048.
RECURSIVE utf8_encode(_)
utf8_encode(text) ==
    IF text = <<>> THEN <<>>
    ELSE (IF text[1] < 128 THEN <<text[1]>>
          ELSE <<192 + (text[1] \div 64), 128 + (text[1] % 64)>>)
         \o utf8_encode(Tail(text))

\* decoded_data.decode('utf-8') for sequences of one and two bytes, from
\* byte i on, text being what is decoded so far: [err, text].
RECURSIVE utf8_decode(_, _, _)
utf8_decode(bytes, i, text) ==
    LET lead ==
            IF i > Len(bytes) THEN "end"
            ELSE IF bytes[i] < 128 THEN "one"
            ELSE IF /\ bytes[i] >= 194 /\ bytes[i] <= 223 /\ Len(bytes) >= i + 1
                    /\ bytes[i + 1] >= 128 /\ bytes[i + 1] <= 191
            THEN "two"
            ELSE "invalid"
    IN  CASE lead = "end" -> [err |-> "none", text |-> text]
          [] lead = "one" -> utf8_decode(bytes, i + 1, Append(text, bytes[i]))
          [] lead = "two" ->
                utf8_decode(bytes, i + 2,
                            Append(text, (bytes[i] - 192) * 64 + (bytes[i + 1] - 128)))
          [] lead = "invalid" -> [err |-> "UnicodeDecodeError", text |-> <<>>]

\* The URL-safe base64 alphabet: the character of a six-bit value and back
\* (after urlsafe_b64decode's translation "+" and "/" are read as well).
b64char(n) ==
    IF n < 26 THEN ord("A") + n
    ELSE IF n < 52 THEN ord("a") + (n - 26)
    ELSE IF n < 62 THEN ord("0") + (n - 52)
    ELSE IF n = 62 THEN ord("-") ELSE ord("_")

b64value(c) ==
    IF c >= ord("A") /\ c <= ord("Z") THEN c - ord("A")
    ELSE IF c >= ord("a") /\ c <= ord("z") THEN c - ord("a") + 26
    ELSE IF c >= ord("0") /\ c <= ord("9") THEN c - ord("0") + 52
    ELSE IF c \in {ord("-"), ord("+")} THEN 62
    ELSE IF c \in {ord("_"), ord("/")} THEN 63
    ELSE 0 - 1

\* base64.urlsafe_b64encode(data), padding included.
RECURSIVE urlsafe_b64encode(_)
urlsafe_b64encode(bytes) ==
    IF bytes = <<>> THEN <<>>
    ELSE IF Len(bytes) = 1
    THEN <<b64char(bytes[1] \div 4), b64char((bytes[1] % 4) * 16), ord("="), ord("=")>>
    ELSE IF Len(bytes) = 2
    THEN <<b64char(bytes[1] \div 4),
           b64char((bytes[1] % 4) * 16 + (bytes[2] \div 16)),
           b64char((bytes[2] % 16) * 4), ord("=")>>
    ELSE <<b64char(bytes[1] \div 4),
           b64char((bytes[1] % 4) * 16 + (bytes[2] \div 16)),
           b64char((bytes[2] % 16) * 4 + (bytes[3] \div 64)),
           b64char(bytes[3] % 64)>>
         \o urlsafe_b64encode(SubSeq(bytes, 4, Len(bytes)))

\* binascii.a2b_base64 with the state of its loop in loc: the character i
\* it is at, quad_pos, leftchar, leftbits and the bytes bin_data put out so
\* far. Characters outside the alphabet are skipped, a pad sequence ends
\* the input, and bits left over at the end are "Incorrect padding"
\* (binascii.Error). [err, bytes].
RECURSIVE a2b_base64(_, _)
a2b_base64(data, loc) ==
    LET NextValid(j) ==
            LET later == {k \in (j + 1)..Len(data) :
                             data[k] = ord("=") \/ b64value(data[k]) >= 0}
            IN  IF later = {} THEN 0 - 1
                ELSE data[CHOOSE k \in later : \A m \in later : k <= m]
        this_ch ==
            IF loc.i > Len(data) THEN "end"
            ELSE IF data[loc.i] > 127 \/ data[loc.i] \in {10, 13, ord(" ")} THEN "skip"
            ELSE IF data[loc.i] = ord("=")
            THEN IF \/ loc.quad_pos < 2
                    \/ (loc.quad_pos = 2 /\ NextValid(loc.i) # ord("="))
                 THEN "skip"
                 ELSE "pad"
            ELSE IF b64value(data[loc.i]) < 0 THEN "skip"
            ELSE IF loc.leftbits + 6 >= 8 THEN "byte"
            ELSE "bits"
        bits == loc.leftchar * 64 + b64value(data[loc.i])
        n == loc.leftbits + 6
    IN  CASE this_ch = "end" ->
                IF loc.leftbits # 0 THEN [err |-> "binascii.Error", bytes |-> <<>>]
                ELSE [err |-> "none", bytes |-> loc.bin_data]
          [] this_ch = "pad" -> [err |-> "none", bytes |-> loc.bin_data]
          [] this_ch = "skip" -> a2b_base64(data, [loc EXCEPT !.i = @ + 1])
          [] this_ch = "bits" ->
                a2b_base64(data, [loc EXCEPT !.i = @ + 1,
                                             !.quad_pos = (@ + 1) % 4,
                                             !.leftchar = bits,
                                             !.leftbits = n])
          [] this_ch = "byte" ->
                a2b_base64(data, [i |-> loc.i + 1,
                                  quad_pos |-> (loc.quad_pos + 1) % 4,
                                  leftchar |-> bits % (2 ^ (n - 8)),
                                  leftbits |-> n - 8,
                                  bin_data |-> Append(loc.bin_data,
                                                      bits \div (2 ^ (n - 8)))])

\* base64.urlsafe_b64decode(s) of a str: non-ASCII characters are a
\* ValueError of their own, before the decoding. [err, bytes].
urlsafe_b64decode(data) ==
    IF \E i \in 1..Len(data) : data[i] > 127
    THEN [err |-> "ValueError", bytes |-> <<>>]
    ELSE a2b_base64(data, [i |-> 1, quad_pos |-> 0, leftchar |-> 0, leftbits |-> 0,
                           bin_data |-> <<>>])

\* CompoundId.obfuscate(idStr)
obfuscate(idStr) ==
    LET NoPad(c) == c # ord("=")
    IN  SelectSeq(urlsafe_b64encode(utf8_encode(idStr)), NoPad)

\* CompoundId.deobfuscate(data): [err, text]. A UnicodeDecodeError becomes
\* ObjectWithIdNotFoundException here; the errors of the base64 decoding
\* leave the function as they are.
deobfuscate(data) ==
    LET padding == SubSeq(Text(<<"A", "=", "=">>), ((Len(data) - 1) % 4) + 1, 3)
        Decode(decoded_data) ==
            IF decoded_data.err # "none"
            THEN [err |-> decoded_data.err, text |-> <<>>]
            ELSE IF utf8_decode(decoded_data.bytes, 1, <<>>).err # "none"
            THEN [err |-> "ObjectWithIdNotFoundException", text |-> <<>>]
            ELSE utf8_decode(decoded_data.bytes, 1, <<>>)
    IN  Decode(urlsafe_b64decode(data \o padding))

\* str.replace(old, new) for a pattern of one or two characters.
RECURSIVE replace(_, _, _)
replace(text, old, new) ==
    IF Len(text) < Len(old) THEN text
    ELSE IF SubSeq(text, 1, Len(old)) = old
    THEN new \o replace(SubSeq(text, Len(old) + 1, Len(text)), old, new)
    ELSE <<text[1]>> \o replace(Tail(text), old, new)

\* CompoundId.encode(idString)
encode(idString) == replace(idString, Text(<<"\"">>), Text(<<"\\", "\"">>))

\* CompoundId.decode(encodedString)
decode(encodedString) == replace(encodedString, Text(<<"\\", "\"">>), Text(<<"\"">>))

\* CompoundId.join(splits)
RECURSIVE join_segments(_)
join_segments(splits) ==
    IF splits = <<>> THEN <<>>
    ELSE Text(<<"\"">>) \o splits[1] \o Text(<<"\"">>)
         \o (IF Len(splits) > 1 THEN Text(<<",">>) ELSE <<>>)
         \o join_segments(Tail(splits))

join(splits) == Text(<<"[">>) \o join_segments(splits) \o Text(<<"]">>)

\* json.loads for the texts of the model: arrays, strings with their
\* escapes, non-negative numbers, null / true / false and the empty
\* object; whitespace between the tokens. A value is [type, items, text];
\* a text that is no JSON is a ValueError. Forms outside this set ("\u",
\* a sign, NaN, Infinity, objects with members) are "unsupported": no id
\* of the model decodes to one.
JsonFail(error) == [err |-> error, value |-> [type |-> "none"], next |-> 0]
JsonWhitespace == {9, 10, 13, 32}
JsonDigits == ord("0")..ord("9")

RECURSIVE JsonSkip(_, _)
JsonSkip(text, i) ==
    IF i <= Len(text) /\ text[i] \in JsonWhitespace THEN JsonSkip(text, i + 1) ELSE i

RECURSIVE JsonString(_, _, _)
JsonString(text, i, acc) ==
    LET Escape(e) ==
            CASE e \in {ord("\""), ord("\\"), ord("/")} -> e
              [] e = ord("b") -> 8
              [] e = ord("f") -> 12
              [] e = ord("n") -> 10
              [] e = ord("r") -> 13
              [] e = ord("t") -> 9
              [] OTHER -> 0 - 1
    IN  IF i > Len(text) THEN JsonFail("ValueError")
        ELSE IF text[i] = ord("\"")
        THEN [err |-> "none", value |-> [type |-> "str", text |-> acc], next |-> i + 1]
        ELSE IF text[i] = ord("\\")
        THEN IF i + 1 > Len(text) THEN JsonFail("ValueError")
             ELSE IF text[i + 1] = ord("u") THEN JsonFail("unsupported")
             ELSE IF Escape(text[i + 1]) < 0 THEN JsonFail("ValueError")
             ELSE JsonString(text, i + 2, Append(acc, Escape(text[i + 1])))
        ELSE IF text[i] < 32 THEN JsonFail("ValueError")
        ELSE JsonString(text, i + 1, Append(acc, text[i]))

RECURSIVE JsonNumberEnd(_, _)
JsonNumberEnd(text, i) ==
    IF i <= Len(text) /\ text[i] \in JsonDigits THEN JsonNumberEnd(text, i + 1) ELSE i

RECURSIVE JsonValue(_, _)
RECURSIVE JsonItems(_, _, _)
JsonItems(text, i, acc) ==
    LET After(item, j) ==
            IF j > Len(text) THEN JsonFail("ValueError")
            ELSE IF text[j] = ord("]")
            THEN [err |-> "none",
                  value |-> [type |-> "list", items |-> Append(acc, item.value)],
                  next |-> j + 1]
            ELSE IF text[j] = ord(",")
            THEN JsonItems(text, JsonSkip(text, j + 1), Append(acc, item.value))
            ELSE JsonFail("ValueError")
        Item(item) ==
            IF item.err # "none" THEN item ELSE After(item, JsonSkip(text, item.next))
    IN  Item(JsonValue(text, i))

JsonValue(text, i) ==
    LET Literal(word) == i + Len(word) - 1 <= Len(text)
                            /\ SubSeq(text, i, i + Len(word) - 1) = Text(word)
        IsDigit_(j) == j <= Len(text) /\ text[j] \in JsonDigits
        Exponent(j) ==
            IF j <= Len(text) /\ text[j] \in {ord("e"), ord("E")}
            THEN IF IsDigit_(j + 1) THEN JsonNumberEnd(text, j + 1)
                 ELSE IF /\ j + 1 <= Len(text) /\ text[j + 1] \in {ord("+"), ord("-")}
                         /\ IsDigit_(j + 2)
                 THEN JsonNumberEnd(text, j + 2)
                 ELSE j
            ELSE j
        Fraction(j) ==
            IF j <= Len(text) /\ text[j] = ord(".") /\ IsDigit_(j + 1)
            THEN JsonNumberEnd(text, j + 1) ELSE j
        Number(j) ==
            [err |-> "none",
             value |-> [type |-> IF Exponent(Fraction(j)) = j THEN "int" ELSE "float"],
             next |-> Exponent(Fraction(j))]
        Array(j) ==
            IF j <= Len(text) /\ text[j] = ord("]")
            THEN [err |-> "none", value |-> [type |-> "list", items |-> <<>>], next |-> j + 1]
            ELSE JsonItems(text, j, <<>>)
        Object(j) ==
            IF j <= Len(text) /\ text[j] = ord("}")
            THEN [err |-> "none", value |-> [type |-> "dict", items |-> <<>>], next |-> j + 1]
            ELSE IF j <= Len(text) /\ text[j] = ord("\"") THEN JsonFail("unsupported")
            ELSE JsonFail("ValueError")
    IN  IF i > Len(text) THEN JsonFail("ValueError")
        ELSE IF text[i] = ord("[") THEN Array(JsonSkip(text, i + 1))
        ELSE IF text[i] = ord("{") THEN Object(JsonSkip(text, i + 1))
        ELSE IF text[i] = ord("\"") THEN JsonString(text, i + 1, <<>>)
        ELSE IF text[i] = ord("0") THEN Number(i + 1)
        ELSE IF text[i] \in JsonDigits THEN Number(JsonNumberEnd(text, i + 1))
        ELSE IF text[i] = ord("-") THEN JsonFail("unsupported")
        ELSE IF Literal(<<"n", "u", "l", "l">>)
        THEN [err |-> "none", value |-> [type |-> "NoneType"], next |-> i + 4]
        ELSE IF Literal(<<"t", "r", "u", "e">>)
        THEN [err |-> "none", value |-> [type |-> "bool"], next |-> i + 4]
        ELSE IF Literal(<<"f", "a", "l", "s", "e">>)
        THEN [err |-> "none", value |-> [type |-> "bool"], next |-> i + 5]
        ELSE IF text[i] \in {ord("N"), ord("I")} THEN JsonFail("unsupported")
        ELSE JsonFail("ValueError")

\* CompoundId.split(jsonString): json.loads(jsonString). [err, value].
split(jsonString) ==
    LET End(parsed_) ==
            IF parsed_.err # "none" THEN [err |-> parsed_.err, value |-> parsed_.value]
            ELSE IF JsonSkip(jsonString, parsed_.next) <= Len(jsonString)
            THEN [err |-> "ValueError", value |-> [type |-> "none"]]
            ELSE [err |-> "none", value |-> parsed_.value]
    IN  End(JsonValue(jsonString, JsonSkip(jsonString, 1)))

\* The compound id classes of the model: their fields and differentiator.
differentiatorFieldName == "differentiator"

DatasetCompoundId ==
    [name |-> "DatasetCompoundId", fields |-> <<"dataset">>,
     hasDifferentiator |-> FALSE, differentiator |-> <<>>]

PatientCompoundId ==
    [name |-> "PatientCompoundId",
     fields |-> <<"dataset", differentiatorFieldName, "patient">>,
     hasDifferentiator |-> TRUE, differentiator |-> Text(<<"p", "a", "t">>)]

\* fields.index(differentiatorFieldName), counted from 0.
DifferentiatorIndex(cls) ==
    (CHOOSE i \in 1..Len(cls.fields) : cls.fields[i] = differentiatorFieldName) - 1

\* CompoundId.__init__(None, *localIds) of class cls: [err, cls, values],
\* values being the attributes named by cls.fields, in order. The local ids
\* of the model are strings.
CompoundId(cls, localIds) ==
    LET di == DifferentiatorIndex(cls)
        Init_(ids) ==
            IF Len(ids) # Len(cls.fields)
            THEN [err |-> "ValueError", cls |-> cls.name, values |-> <<>>]
            ELSE [err |-> "none", cls |-> cls.name,
                  values |-> [i \in 1..Len(ids) |-> encode(ids[i])]]
    IN  IF cls.hasDifferentiator
        THEN Init_(SubSeq(localIds, 1, di) \o <<cls.differentiator>>
                     \o SubSeq(localIds, di + 1, Len(localIds)))
        ELSE Init_(localIds)

\* CompoundId.__str__
__str__(compoundId) == obfuscate(join(compoundId.values))

\* What iterating over the value json.loads returned gives: the items of a
\* list, the characters of a string, the keys of a dict; TypeError for a
\* value that is not iterable.
Iterate(value) ==
    CASE value.type = "list" -> [err |-> "none", items |-> value.items]
      [] value.type = "str" ->
            [err |-> "none",
             items |-> [i \in 1..Len(value.text) |->
                          [type |-> "str", text |-> <<value.text[i]>>]]]
      [] value.type = "dict" -> [err |-> "none", items |-> value.items]
      [] OTHER -> [err |-> "TypeError", items |-> <<>>]

\* CompoundId.parse(compoundIdStr) of class cls, compoundIdStr being a str:
\* [err, cls, values].
parse(cls, compoundIdStr) ==
    LET Failed(error) == [err |-> error, cls |-> cls.name, values |-> <<>>]
        Build(splits) ==
            IF cls.hasDifferentiator
            THEN IF DifferentiatorIndex(cls) < Len(splits)
                 THEN IF Len(splits) - 1 # Len(cls.fields) - 1
                      THEN Failed("ObjectWithIdNotFoundException")
                      ELSE CompoundId(cls,
                                      SubSeq(splits, 1, DifferentiatorIndex(cls))
                                        \o SubSeq(splits, DifferentiatorIndex(cls) + 2,
                                                  Len(splits)))
                 ELSE Failed("ObjectWithIdNotFoundException")
            ELSE IF Len(splits) # Len(cls.fields)
            THEN Failed("ObjectWithIdNotFoundException")
            ELSE CompoundId(cls, splits)
        Decode(encodedSplits) ==
            IF encodedSplits.err # "none" THEN Failed(encodedSplits.err)
            ELSE IF \E i \in 1..Len(encodedSplits.items) :
                        encodedSplits.items[i].type # "str"
            THEN Failed("AttributeError")
            ELSE Build([i \in 1..Len(encodedSplits.items) |->
                           decode(encodedSplits.items[i].text)])
        Loaded(loaded) ==
            IF loaded.err = "ValueError" THEN Failed("ObjectWithIdNotFoundException")
            ELSE IF loaded.err # "none" THEN Failed(loaded.err)
            ELSE Decode(Iterate(loaded.value))
        Deobfuscated(deobfuscated) ==
            IF deobfuscated.err = "binascii.Error"
            THEN Failed("ObjectWithIdNotFoundException")
            ELSE IF deobfuscated.err # "none" THEN Failed(deobfuscated.err)
            ELSE Loaded(split(deobfuscated.text))
    IN  Deobfuscated(deobfuscate(compoundIdStr))

\* -------------------------------------------------------------------- SpecId
\* Identifiers are made from local names of at most MaxNameLen characters
\* (a letter, the double quote, the backslash, a non-ASCII letter) and their
\* string form is parsed, as the class they were made of or as the other
\* one; and id strings that come from a client are parsed: every string of
\* at most MaxIdLen characters over a few base64 characters, a character
\* outside the alphabet and a non-ASCII character, and some longer ones.
NameChars == {ord("a"), ord("\""), ord("\\"), ord("é")}
LocalNames == UNION {[1..n -> NameChars] : n \in 0..MaxNameLen}

IdClasses == {DatasetCompoundId, PatientCompoundId}
ClassNamed(name) == CHOOSE cls \in IdClasses : cls.name = name

IdChars == {ord("W"), ord("z"), ord("F"), ord("d"), ord("1"), ord("0"), ord("!"), ord("é")}
ClientIds ==
    UNION {[1..n -> IdChars] : n \in 0..MaxIdLen}
    \cup {Text(<<"I", "m", "E", "i">>), Text(<<"e", "3", "0">>),
          Text(<<"b", "n", "V", "s", "b", "A">>), Text(<<"N", "Q">>),
          Text(<<"_", "w">>), Text(<<"W", "y", "J", "h", "I", "l", "0", "=">>),
          Text(<<"W", "y", "J", "h", "I", "l", "0", "!">>),
          Text(<<"W", "y", "J", "h", "I", "l", "1", "d">>),
          Text(<<"W", "1", "t", "d", "X", "Q">>),
          Text(<<"W", "y", "J", "h", "I", "i", "w", "x", "X", "Q">>)}

InitId ==
    /\ \/ /\ \E cls \in IdClasses, as \in IdClasses,
               localIds \in UNION {[1..n -> LocalNames] : n \in 1..2} :
                /\ Len(localIds) = Len(cls.fields) - (IF cls.hasDifferentiator THEN 1 ELSE 0)
                /\ cid = [kind |-> "made", cls |-> cls.name, localIds |-> localIds,
                          as |-> as.name, err |-> "none", values |-> <<>>]
          /\ givenId = <<>>
          /\ pc = "construct"
       \/ /\ \E as \in IdClasses :
                cid = [kind |-> "client", cls |-> "", localIds |-> <<>>,
                       as |-> as.name, err |-> "none", values |-> <<>>]
          /\ givenId \in ClientIds
          /\ pc = "parse"
    /\ parseResult = [err |-> "none", cls |-> "", values |-> <<>>]
    /\ IdleGen /\ IdleFilter /\ IdleRepo /\ IdleSearch /\ IdleQuery /\ IdleResults
    /\ IdleRegistry /\ IdleUpdate /\ IdleAttr /\ IdlePages /\ IdleClients

\* cls(None, *localIds) and str() of the new identifier
Construct ==
    /\ pc = "construct"
    /\ LET Made(compoundId) ==
               /\ cid' = [cid EXCEPT !.err = compoundId.err, !.values = compoundId.values]
               /\ givenId' = __str__(compoundId)
       IN  Made(CompoundId(ClassNamed(cid.cls), cid.localIds))
    /\ pc' = "parse"
    /\ UNCHANGED <<parseResult, genVars, filterVars, repoVars, searchVars, queryVars,
                   resultVars, registryVars, updateVars, attrVars, pages, clients>>

\* cls.parse(compoundIdStr)
Parse ==
    /\ pc = "parse"
    /\ parseResult' = parse(ClassNamed(cid.as), givenId)
    /\ pc' = "parsed"
    /\ UNCHANGED <<cid, givenId, genVars, filterVars, repoVars, searchVars, queryVars,
                   resultVars, registryVars, updateVars, attrVars, pages, clients>>

NextId == Construct \/ Parse

SpecId == InitId /\ [][NextId]_vars

\* C13 (as claimed): for every compound-id class and every tuple of local
\* names, parsing the string form of the identifier as its class returns an
\* identifier with the same field values and the same string form.
C13_IdentifierRoundTrip ==
    (pc = "parsed" /\ cid.kind = "made" /\ cid.as = cid.cls) =>
        /\ parseResult.err = "none"
        /\ parseResult.values = cid.values
        /\ __str__(parseResult) = givenId

\* The decoded text of the given id is a JSON list of strings, as many as
\* the class has fields.
WellShapedId ==
    LET Listed(cls, loaded) ==
            /\ loaded.err = "none"
            /\ loaded.value.type = "list"
            /\ \A i \in 1..Len(loaded.value.items) : loaded.value.items[i].type = "str"
            /\ Len(loaded.value.items) = Len(cls.fields)
        Decoded(deobfuscated) ==
            /\ deobfuscated.err = "none"
            /\ Listed(ClassNamed(cid.as), split(deobfuscated.text))
    IN  Decoded(deobfuscate(givenId))

\* C14 (as claimed): for every id string parse returns an identifier or
\* raises ObjectWithIdNotFoundException, and it raises it whenever the
\* base64 decoding fails, the bytes are no text, the text is no list of
\* strings of the expected shape or the number of fields is another.
C14_MalformedLooksNonexistent ==
    pc = "parsed" =>
        /\ parseResult.err \in {"none", "ObjectWithIdNotFoundException"}
        /\ ~WellShapedId => parseResult.err = "ObjectWithIdNotFoundException"

\* ------------------------------------------------------- dataset registry
\* AbstractDataRepository: a dictionary is a function from its keys, a
\* dataset is its local id and the serial number of the object (two Dataset
\* objects of one name are different objects with the same id).
Put(dict, key, value) ==
    [k \in DOMAIN dict \cup {key} |-> IF k = key THEN value ELSE dict[k]]

\* datasets.Dataset(localId): the object made by the n-th call
Dataset(localId, serial) == [_localId |-> localId, serial |-> serial]

\* DatamodelObject.getId(): str(self._compoundId)
getId(dataset) == __str__(CompoundId(DatasetCompoundId, <<dataset._localId>>))

\* DatamodelObject.getLocalId()
getLocalId(dataset) == dataset._localId

\* The repository object.
Repo ==
    [_datasetIdMap |-> _datasetIdMap, _datasetNameMap |-> _datasetNameMap,
     _datasetIds |-> _datasetIds]

\* An addDataset that does not enter the dataset under its name.
addDataset_NoNameEntry(self, dataset) ==
    LET Add(id_) ==
            [_datasetIdMap |-> Put(self._datasetIdMap, id_, dataset),
             _datasetNameMap |-> self._datasetNameMap,
             _datasetIds |-> Append(self._datasetIds, id_)]
    IN  Add(getId(dataset))

\* AbstractDataRepository.addDataset: the fields after the call
addDataset(self, dataset) ==
    LET Add(id_) ==
            [_datasetIdMap |-> Put(self._datasetIdMap, id_, dataset),
             _datasetNameMap |-> Put(self._datasetNameMap, getLocalId(dataset), dataset),
             _datasetIds |-> Append(self._datasetIds, id_)]
    IN  Add(getId(dataset))

\* What a call gives: the value returned or the exception raised.
Gives(value) == [err |-> "none", value |-> value]
Throws(error) == [err |-> error, value |-> <<>>]

getDatasets(self) ==
    Gives([i \in 1..Len(self._datasetIds) |-> self._datasetIdMap[self._datasetIds[i]]])

getNumDatasets(self) == Gives(Len(self._datasetIds))

getDataset(self, id_) ==
    IF id_ \notin DOMAIN self._datasetIdMap
    THEN Throws("DatasetNotFoundException")
    ELSE Gives(self._datasetIdMap[id_])

\* self._datasetIds[index] raises IndexError outside the list
getDatasetByIndex(self, index) ==
    IF ~ListIndexOk(self._datasetIds, index)
    THEN Throws("IndexError")
    ELSE Gives(self._datasetIdMap[ListGet(self._datasetIds, index)])

getDatasetByName(self, name) ==
    IF name \notin DOMAIN self._datasetNameMap
    THEN Throws("DatasetNameNotFoundException")
    ELSE Gives(self._datasetNameMap[name])

\* ------------------------------------------------------------ SpecRegistry
\* Datasets are added to a new repository, at most MaxDatasets of them, and
\* between the additions the repository is asked for its datasets: by id,
\* by name, by index, all of them, and their number.
DatasetNames ==
    {Text(<<>>), Text(<<"a">>), Text(<<"b">>), Text(<<"\"">>), Text(<<"\\", "\"">>)}

LookupNames == DatasetNames \cup {Text(<<"z", "z">>)}

LookupIds ==
    {getId(Dataset(name, 0)) : name \in DatasetNames}
    \cup {Text(<<>>), Text(<<"W", "z", "F", "d">>)}

LookupIndexes == (0 - MaxDatasets)..MaxDatasets

NoCall == [op |-> "", arg |-> <<>>, err |-> "none", value |-> <<>>]

Called(op, arg, given) == [op |-> op, arg |-> arg, err |-> given.err, value |-> given.value]

InitRegistry ==
    /\ _datasetIdMap = <<>>
    /\ _datasetNameMap = <<>>
    /\ _datasetIds = <<>>
    /\ inserted = <<>>
    /\ found = NoCall
    /\ pc = "repository"
    /\ IdleGen /\ IdleFilter /\ IdleRepo /\ IdleSearch /\ IdleQuery /\ IdleResults
    /\ IdleUpdate /\ IdleId /\ IdleAttr /\ IdlePages /\ IdleClients

\* self._dataRepo.addDataset(datasets.Dataset(name))
AddDataset ==
    /\ Len(inserted) < MaxDatasets
    /\ \E name \in DatasetNames :
          LET Store(dataset, self) ==
                  /\ _datasetIdMap' = self._datasetIdMap
                  /\ _datasetNameMap' = self._datasetNameMap
                  /\ _datasetIds' = self._datasetIds
                  /\ inserted' = Append(inserted, dataset)
              Adding(dataset) == Store(dataset, addDataset(Repo, dataset))
          IN  Adding(Dataset(name, Len(inserted) + 1))
    /\ found' = NoCall
    /\ pc' = "repository"
    /\ UNCHANGED <<genVars, filterVars, repoVars, searchVars, queryVars, resultVars,
                   updateVars, idVars, attrVars, pages, clients>>

\* A getter leaves the repository as it is.
Looked ==
    /\ pc' = "looked"
    /\ UNCHANGED <<_datasetIdMap, _datasetNameMap, _datasetIds, inserted, genVars,
                   filterVars, repoVars, searchVars, queryVars, resultVars, updateVars,
                   idVars, attrVars, pages, clients>>

GetDatasets ==
    /\ found' = Called("getDatasets", <<>>, getDatasets(Repo))
    /\ Looked

GetNumDatasets ==
    /\ found' = Called("getNumDatasets", <<>>, getNumDatasets(Repo))
    /\ Looked

GetDataset ==
    /\ \E id_ \in LookupIds :
          found' = Called("getDataset", id_, getDataset(Repo, id_))
    /\ Looked

GetDatasetByIndex ==
    /\ \E index \in LookupIndexes :
          found' = Called("getDatasetByIndex", index, getDatasetByIndex(Repo, index))
    /\ Looked

GetDatasetByName ==
    /\ \E name \in LookupNames :
          found' = Called("getDatasetByName", name, getDatasetByName(Repo, name))
    /\ Looked

NextRegistry ==
    \/ AddDataset
    \/ GetDatasets
    \/ GetNumDatasets
    \/ GetDataset
    \/ GetDatasetByIndex
    \/ GetDatasetByName

SpecRegistry == InitRegistry /\ [][NextRegistry]_vars

\* The datasets added so far have pairwise distinct names.
DistinctNames ==
    \A i, j \in 1..Len(inserted) :
        getLocalId(inserted[i]) = getLocalId(inserted[j]) => i = j

\* C17: after additions of datasets of pairwise distinct names the number
\* of datasets is the number added, getDatasets gives them in the order of
\* their addition, the k-th one is given by getDatasetByIndex(k), by
\* getDatasetByName(its name) and by getDataset(its id), and an id or a
\* name never added raises DatasetNotFoundException or
\* DatasetNameNotFoundException; and every call made gave just that.
C17_RegistryConsistency ==
    (pc \in {"repository", "looked"} /\ DistinctNames) =>
        /\ getNumDatasets(Repo) = Gives(Len(inserted))
        /\ getDatasets(Repo) = Gives(inserted)
        /\ \A k \in 1..Len(inserted) :
              /\ getDatasetByIndex(Repo, k - 1) = Gives(inserted[k])
              /\ getDatasetByName(Repo, getLocalId(inserted[k])) = Gives(inserted[k])
              /\ getDataset(Repo, getId(inserted[k])) = Gives(inserted[k])
        /\ \A id_ \in LookupIds :
              (\A k \in 1..Len(inserted) : getId(inserted[k]) # id_)
                  => getDataset(Repo, id_) = Throws("DatasetNotFoundException")
        /\ \A name \in LookupNames :
              (\A k \in 1..Len(inserted) : getLocalId(inserted[k]) # name)
                  => getDatasetByName(Repo, name) = Throws("DatasetNameNotFoundException")
        /\ found.op = "getNumDatasets" => found.value = Len(inserted)
        /\ found.op = "getDatasets" => found.value = inserted
        /\ (found.op = "getDatasetByIndex" /\ found.arg \in 0..(Len(inserted) - 1))
              => found.value = inserted[found.arg + 1]
        /\ found.op = "getDatasetByName" =>
              IF \E k \in 1..Len(inserted) : getLocalId(inserted[k]) = found.arg
              THEN found.err = "none" /\ getLocalId(found.value) = found.arg
                   /\ \E k \in 1..Len(inserted) : inserted[k] = found.value
              ELSE found.err = "DatasetNameNotFoundException"
        /\ found.op = "getDataset" =>
              IF \E k \in 1..Len(inserted) : getId(inserted[k]) = found.arg
              THEN found.err = "none" /\ getId(found.value) = found.arg
                   /\ \E k \in 1..Len(inserted) : inserted[k] = found.value
              ELSE found.err = "DatasetNotFoundException"

\* MaxDatasets datasets of distinct names were added, one of them with a
\* name that has a double quote, and the last one was asked for by name.
C17_Witness ==
    /\ pc = "looked"
    /\ Len(inserted) = MaxDatasets
    /\ DistinctNames
    /\ \E k \in 1..Len(inserted) : getLocalId(inserted[k]) = Text(<<"\"">>)
    /\ found.op = "getDatasetByName"
    /\ found.err = "none"
    /\ found.value = inserted[Len(inserted)]

\* ------------------------------------------------------ repository updates
\* The SQLite database is the set of its tables and the set of its rows (a
\* row is its table and its key). The connection is made by
\* SqliteDatabase(fileName) with no transaction opened anywhere, so every
\* statement that succeeds is in the file when it returns. A statement is
\* the creation of a table or the creation of a row.
MODE_WRITE == <<"w">>

CreateTable(table) == [op |-> "create_tables", table |-> table, key |-> <<>>]
CreateRow(table, key) == [op |-> "create", table |-> table, key |-> key]

\* A statement can be executed: a row needs its table and a key not there.
Executes(db, statement) ==
    \/ statement.op = "create_tables"
    \/ /\ statement.op = "create"
       /\ statement.table \in db.tables
       /\ <<statement.table, statement.key>> \notin db.rows

\* The database after a statement.
Execute(db, statement) ==
    IF statement.op = "create_tables"
    THEN [db EXCEPT !.tables = @ \cup {statement.table}]
    ELSE [db EXCEPT !.rows = @ \cup {<<statement.table, statement.key>>}]

\* The tables initialise creates, in its order (the first MaxTables of them).
Tables ==
    SubSeq(<<"System", "Dataset", "Patient", "Enrollment", "Consent", "Diagnosis",
             "Sample", "Treatment", "Outcome", "Complication", "Tumourboard",
             "Chemotherapy", "Radiotherapy", "Surgery", "Immunotherapy",
             "Celltransplant", "Slide", "Study", "Labtest", "Extraction",
             "Sequencing", "Alignment", "VariantCalling", "FusionDetection",
             "ExpressionAnalysis">>, 1, MaxTables)

\* SqlDataRepository._createSystemTable
_createSystemTable ==
    <<CreateTable("System"),
      CreateRow("System", "schemaVersion"),
      CreateRow("System", "creationTimeStamp")>>

\* SqlDataRepository.initialise after its _checkWriteMode()
initialise ==
    _createSystemTable \o [i \in 1..(Len(Tables) - 1) |-> CreateTable(Tables[i + 1])]

\* SqlDataRepository.insertDataset(dataset)
insertDataset(dataset) == <<CreateRow("Dataset", getId(dataset))>>

\* The exception func raises when a statement of it fails: insertDataset
\* turns every Exception into DuplicateNameException.
FuncError(func, error) ==
    IF func = "insertDataset" /\ error # "KeyboardInterrupt"
    THEN "DuplicateNameException" ELSE error

\* SqlDataRepository._checkWriteMode
_checkWriteMode(openMode) == IF openMode # MODE_WRITE THEN "ValueError" ELSE "none"

\* SqlDataRepository.close: the mode after it, or the error
close(openMode) ==
    IF openMode = None THEN [err |-> "ValueError", _openMode |-> openMode]
    ELSE [err |-> "none", _openMode |-> None]

\* --------------------------------------------------------------- SpecUpdate
\* RepoManager._updateRepo(func) with func the initialise of a new file or
\* the insertDataset of a dataset into an initialised file. A statement
\* fails when it cannot be executed (a dataset that is there already) and
\* can fail for a reason outside the program (the disk is full, the file is
\* locked by another process, the user interrupts the command).
EmptyDatabase == [tables |-> {}, rows |-> {}]

RECURSIVE ExecuteAll(_, _)
ExecuteAll(db, statements) ==
    IF statements = <<>> THEN db
    ELSE ExecuteAll(Execute(db, Head(statements)), Tail(statements))

UpdateNames == {Text(<<"a">>), Text(<<"b">>), Text(<<"\"">>)}

InitUpdate ==
    /\ _openMode = None
    /\ \/ /\ database = EmptyDatabase
          /\ update = [func |-> "initialise", statements |-> initialise, done |-> 0,
                       err |-> "none", before |-> EmptyDatabase]
       \/ \E present \in SUBSET UpdateNames, name \in UpdateNames :
             LET Updating(db) ==
                     /\ database = db
                     /\ update = [func |-> "insertDataset",
                                  statements |-> insertDataset(Dataset(name, 0)),
                                  done |-> 0, err |-> "none", before |-> db]
             IN  Updating([ExecuteAll(EmptyDatabase, initialise) EXCEPT
                              !.rows = @ \cup {<<"Dataset", getId(Dataset(n, 0))>> :
                                                  n \in present}])
    /\ pc = "open"
    /\ IdleGen /\ IdleFilter /\ IdleRepo /\ IdleSearch /\ IdleQuery /\ IdleResults
    /\ IdleRegistry /\ IdleId /\ IdleAttr /\ IdlePages /\ IdleClients

UnchangedByUpdate ==
    UNCHANGED <<genVars, filterVars, repoVars, searchVars, queryVars, resultVars,
                registryVars, idVars, attrVars, pages, clients>>

\* self._repo.open(datarepo.MODE_WRITE)
Open ==
    /\ pc = "open"
    /\ _openMode' = MODE_WRITE
    /\ pc' = "func"
    /\ UNCHANGED <<database, update>>
    /\ UnchangedByUpdate

\* initialise begins with _checkWriteMode().
CheckFails ==
    update.func = "initialise" /\ update.done = 0 /\ _checkWriteMode(_openMode) # "none"

\* func(*args): its next statement is executed and is in the file at once
Statement ==
    /\ pc = "func"
    /\ ~CheckFails
    /\ update.done < Len(update.statements)
    /\ Executes(database, update.statements[update.done + 1])
    /\ database' = Execute(database, update.statements[update.done + 1])
    /\ update' = [update EXCEPT !.done = @ + 1]
    /\ pc' = "func"
    /\ UNCHANGED _openMode
    /\ UnchangedByUpdate

\* func(*args): the mode check or the next statement raises; a statement
\* that raises changes nothing itself
StatementFails ==
    /\ pc = "func"
    /\ update.done < Len(update.statements)
    /\ \E error \in (IF CheckFails THEN {"ValueError"}
                     ELSE IF ~Executes(database, update.statements[update.done + 1])
                     THEN {"IntegrityError"}
                     ELSE {"OperationalError", "KeyboardInterrupt"}) :
          update' = [update EXCEPT
                        !.err = IF CheckFails THEN error ELSE FuncError(update.func, error)]
    /\ pc' = "close"
    /\ UNCHANGED <<_openMode, database>>
    /\ UnchangedByUpdate

\* self._repo.commit(): _checkWriteMode() and nothing else
Commit ==
    /\ pc = "func"
    /\ update.done = Len(update.statements)
    /\ update' = [update EXCEPT !.err = _checkWriteMode(_openMode)]
    /\ pc' = "close"
    /\ UNCHANGED <<_openMode, database>>
    /\ UnchangedByUpdate

\* finally: self._repo.close(), then the return or the exception
Close ==
    /\ pc = "close"
    /\ LET Closed(closed) ==
               /\ _openMode' = closed._openMode
               /\ update' = [update EXCEPT
                                !.err = IF closed.err # "none" THEN closed.err ELSE @]
               /\ pc' = IF closed.err # "none" \/ update.err # "none"
                        THEN "raised" ELSE "returned"
       IN  Closed(close(_openMode))
    /\ UNCHANGED database
    /\ UnchangedByUpdate

NextUpdate == Open \/ Statement \/ StatementFails \/ Commit \/ Close

SpecUpdate == InitUpdate /\ [][NextUpdate]_vars

\* C18 (as claimed): when _updateRepo has returned or raised the repository
\* is closed, and when it raised, because a part of the update failed, the
\* repository has no change.
C18_TransactionalUpdate ==
    pc \in {"returned", "raised"} =>
        /\ _openMode = None
        /\ pc = "raised" => database = update.before

\* ------------------------------------------------------------ SpecAggregate
\* aggregationHandler over the answer of the final search: at most MaxRows
\* rows, each with some of the keys age (a number) and sites (a list of
\* strings, in any order), with or without nextPageToken.
SiteLists ==
    {<<>>, <<Text(<<"a">>)>>, <<Text(<<"b">>)>>,
     <<Text(<<"a">>), Text(<<"b">>)>>, <<Text(<<"b">>), Text(<<"a">>)>>,
     <<Text(<<"b">>), Text(<<"a", "b">>), Text(<<"a">>)>>}

AggRows ==
    {[k \in K |-> IF k \in ListFields THEN list ELSE age] :
        K \in SUBSET {"age", "sites"}, age \in 0..1, list \in SiteLists}

AggFieldLists ==
    {<<"sites">>, <<"age", "sites">>, <<"zzz">>, <<"sites", "sites", "zzz">>}

InitAggregate ==
    /\ query \in [results : {<<ResultsEntry({"table", "fields"}, "patients", f)>> :
                                f \in AggFieldLists}]
    /\ \E rows \in UNION {[1..n -> AggRows] : n \in 0..MaxRows}, token \in {None, <<"1">>} :
          response = SerializedResponse("patients", rows, token)
    /\ results = Raised("none", 0)
    /\ calls = {}
    /\ pc = "aggregate"
    /\ request = Unused /\ collected = Unused /\ lookups = Unused
    /\ responses = Unused /\ fanout = Unused /\ patient_list = Unused
    /\ IdleGen /\ IdleFilter /\ IdleRepo
    /\ IdleRegistry /\ IdleUpdate /\ IdleId /\ IdleAttr /\ IdlePages /\ IdleClients

\* results = self.aggregationHandler(table, results, field)
RunAggregationHandler ==
    /\ pc = "aggregate"
    /\ results' = aggregationHandler(query.results[1].table, response,
                                     query.results[1].fields)
    /\ calls' = {"aggregationHandler"}
    /\ pc' = "aggregated"
    /\ UNCHANGED <<query, responses, fanout, patient_list, searchVars,
                   genVars, filterVars, repoVars, registryVars, updateVars, idVars, attrVars, pages, clients>>

NextAggregate == RunAggregationHandler

SpecAggregate == InitAggregate /\ [][NextAggregate]_vars

\* The rows that have the field f, the string a list value is counted
\* under, written independently of the handler (the strings of the list
\* from the least to the greatest, a comma between two of them), and the
\* sum of the counts of a map.
RowsWith(f) == {i \in 1..Len(response.rows) : f \in DOMAIN response.rows[i]}

RECURSIVE SortedJoin(_)
SortedJoin(list) ==
    IF list = <<>> THEN <<>>
    ELSE LET least == CHOOSE i \in 1..Len(list) :
                          \A j \in 1..Len(list) : ~StrLess(list[j], list[i])
             rest == [j \in 1..(Len(list) - 1) |->
                         IF j < least THEN list[j] ELSE list[j + 1]]
         IN  IF rest = <<>> THEN list[least]
             ELSE list[least] \o <<ord(",")>> \o SortedJoin(rest)

KeyOf(f, v) == IF f = "sites" THEN SortedJoin(v) ELSE v

RECURSIVE SumCounts(_, _)
SumCounts(counts, keys) ==
    IF keys = {} THEN 0
    ELSE LET key == CHOOSE x \in keys : TRUE
         IN  counts[key] + SumCounts(counts, keys \ {key})

RequestedMet ==
    {f \in SetOf(query.results[1].fields) : RowsWith(f) # {}}

\* C21: with no epsilon, aggregationHandler gives for each requested field
\* met in the rows a map from value to count where the count of a value is
\* the number of rows with that value, a list counted under its strings
\* sorted and joined with commas; the counts of a field add up to the
\* number of rows with the field; no other field is in the output; with no
\* counts at all the output is {table: []}; the token is carried over.
C21_Aggregation ==
    pc = "aggregated" =>
        /\ results.err = "none"
        /\ "patients" \in results.keys
        /\ IF RequestedMet = {} THEN results.rows = <<>>
           ELSE /\ Len(results.rows) = 1
                /\ DOMAIN results.rows[1] = RequestedMet
                /\ \A f \in RequestedMet :
                      LET counts == results.rows[1][f]
                      IN  /\ DOMAIN counts
                                = {KeyOf(f, response.rows[i][f]) : i \in RowsWith(f)}
                          /\ \A key \in DOMAIN counts :
                                counts[key] = Cardinality(
                                    {i \in RowsWith(f) :
                                        KeyOf(f, response.rows[i][f]) = key})
                          /\ SumCounts(counts, DOMAIN counts) = Cardinality(RowsWith(f))
        /\ "nextPageToken" \in results.keys <=> "nextPageToken" \in response.keys
        /\ "nextPageToken" \in response.keys =>
              results.nextPageToken = response.nextPageToken

\* C21 witness: of two rows one has sites ["b", "a"] and the other has
\* ["a", "b"], and both are counted under "a,b".
C21_Witness ==
    /\ pc = "aggregated"
    /\ Len(response.rows) = 2
    /\ "sites" \in DOMAIN response.rows[1] /\ "sites" \in DOMAIN response.rows[2]
    /\ response.rows[1]["sites"] = <<Text(<<"b">>), Text(<<"a">>)>>
    /\ response.rows[2]["sites"] = <<Text(<<"a">>), Text(<<"b">>)>>
    /\ Len(results.rows) = 1
    /\ "sites" \in DOMAIN results.rows[1]
    /\ results.rows[1]["sites"] = (Text(<<"a", ",", "b">>) :> 2)

\* ------------------------------------------------------------------ empty And
\* C22 (as claimed): an And node without children gives the empty set of
\* join keys and no error.
C22_EmptyAnd ==
    (pc # "logic" /\ query.logic = Op("and", <<>>)) =>
        /\ patient_list.err = "none"
        /\ patient_list.set = {}

\* ------------------------------------------------------- attributes and tiers
\* DatamodelObject._attributes is a dict from attribute names (str, here
\* sequences of code points) to lists of dicts; the tier of the attribute
\* <name> is the int32Value of the first dict of the entry <name>Tier.
TierSuffix == Text(<<"T", "i", "e", "r">>)

\* attribute_name.endswith("Tier")
endswith(name, suffix) ==
    /\ Len(name) >= Len(suffix)
    /\ SubSeq(name, Len(name) - Len(suffix) + 1, Len(name)) = suffix

\* A validateAttribute that wants an access level above the required one.
validateAttribute_Strict(attribute_name, attrs, tier) ==
    IF endswith(attribute_name, TierSuffix) THEN FALSE
    ELSE LET HasTier == attribute_name \o TierSuffix \in DOMAIN attrs
             attrTierObj == attrs[attribute_name \o TierSuffix]
             HasValue == "int32Value" \in DOMAIN attrTierObj[1]
             attrTier == attrTierObj[1]["int32Value"]
         IN  IF ~HasTier THEN FALSE
             ELSE IF ~HasValue THEN FALSE
             ELSE ~(tier <= attrTier)

\* DatamodelObject.validateAttribute(attribute_name, attributes, tier);
\* attributes.get(...) is None without the entry, and .get('int32Value') is
\* None without the key.
validateAttribute(attribute_name, attrs, tier) ==
    IF endswith(attribute_name, TierSuffix) THEN FALSE
    ELSE LET HasTier == attribute_name \o TierSuffix \in DOMAIN attrs
             attrTierObj == attrs[attribute_name \o TierSuffix]
             HasValue == "int32Value" \in DOMAIN attrTierObj[1]
             attrTier == attrTierObj[1]["int32Value"]
         IN  IF ~HasTier THEN FALSE
             ELSE IF ~HasValue THEN FALSE
             ELSE ~(tier < attrTier)

\* The values of the dicts of an attribute, in order (a dict of the model
\* has one key).
AttributeValues(dictionaries) ==
    [i \in 1..Len(dictionaries) |->
        dictionaries[i][CHOOSE key \in DOMAIN dictionaries[i] : TRUE]]

\* DatamodelObject.serializeMetadataAttributes(msg, tier): the entries of
\* msg.attributes.attr after it, each with the values handed to
\* protocol.setAttribute.
serializeMetadataAttributes(attrs, tier) ==
    [attribute_name \in {n \in DOMAIN attrs : validateAttribute(n, attrs, tier) = TRUE}
        |-> AttributeValues(attrs[attribute_name])]

\* ------------------------------------------------------------------ SpecAttr
\* An object has, for each of two attributes, a value or none and a tier
\* entry or none (with an int32Value in 0..MaxTier, or with another key),
\* and possibly an entry "aTierTier"; it is serialized for a caller of
\* every access level in 0..MaxTier.
AttrNames == {Text(<<"a">>), Text(<<"b">>)}

AttrValueEntries == {<<[int64Value |-> 5]>>, <<[int64Value |-> 5], [int64Value |-> 6]>>}

AttrTierEntries ==
    {<<[int32Value |-> t]>> : t \in 0..MaxTier} \cup {<<[int64Value |-> 0]>>}

AttributeDicts ==
    {[n \in V \cup {m \o TierSuffix : m \in T}
            \cup {m \o TierSuffix \o TierSuffix : m \in TT}
        |-> IF n \in AttrNames THEN values
            ELSE IF n \in {m \o TierSuffix : m \in AttrNames}
                 THEN (IF n = Text(<<"a">>) \o TierSuffix THEN tierA ELSE tierB)
            ELSE <<[int32Value |-> 0]>>] :
        V \in SUBSET AttrNames, T \in SUBSET AttrNames, TT \in SUBSET {Text(<<"a">>)},
        values \in AttrValueEntries, tierA \in AttrTierEntries, tierB \in AttrTierEntries}

InitAttr ==
    /\ attributes \in AttributeDicts
    /\ callerTier \in 0..MaxTier
    /\ msg = <<>>
    /\ pc = "attributes"
    /\ IdleGen /\ IdleFilter /\ IdleRepo /\ IdleSearch /\ IdleQuery /\ IdleResults
    /\ IdleRegistry /\ IdleUpdate /\ IdleId /\ IdlePages /\ IdleClients

\* self.serializeMetadataAttributes(msg, tier)
SerializeMetadataAttributes ==
    /\ pc = "attributes"
    /\ msg' = serializeMetadataAttributes(attributes, callerTier)
    /\ pc' = "serialized"
    /\ UNCHANGED <<attributes, callerTier, genVars, filterVars, repoVars, searchVars,
                   queryVars, resultVars, registryVars, updateVars, idVars, pages, clients>>

NextAttr == SerializeMetadataAttributes

SpecAttr == InitAttr /\ [][NextAttr]_vars

\* The names validateAttribute is asked about: the attributes of the object
\* and the names of the model that it has not.
AskedNames ==
    DOMAIN attributes \cup AttrNames \cup {n \o TierSuffix : n \in AttrNames}

\* The attribute has a tier entry with an int32Value, and that value.
HasRequiredTier(name) ==
    /\ name \o TierSuffix \in DOMAIN attributes
    /\ "int32Value" \in DOMAIN attributes[name \o TierSuffix][1]
RequiredTier(name) == attributes[name \o TierSuffix][1]["int32Value"]

ClientNames == {1, 2}

ClientRequests ==
    [filters : {<<>>, <<Filter({"field", "operator", "value"}, "age", "eq", 1, <<>>)>>,
                <<Filter({"field", "operator", "value"}, "agee", "eq", 0, <<>>)>>},
     page_size : {0, 2}, page_token : {<<>>}]

InitConcurrent ==
    /\ patients \in {AsPatients(l) :
                        l \in {q \in QueryPatients : Len(q) \in 1..MaxRows}}
    /\ samples = <<>>
    /\ access_map \in AccessMaps
    /\ defaultPageSize = 1
    /\ maxResponseLength = MaxResponseLength
    /\ query \in [components : {<<Component("c1", "patients", FALSE, <<>>)>>},
                   logic : {Ref("c1"), Not("c1")},
                   results : {<<ResultsEntry({"table", "fields"}, "patients", <<"age">>)>>},
                   pageToken : {None}, count : BOOLEAN]
    /\ Received
    /\ collected = <<>>
    /\ lookups = 0
    /\ \E first \in [ClientNames -> ClientRequests] :
          /\ first[1].page_size = 0
          /\ clients = [c \in ClientNames |->
                           [first |-> first[c], request |-> first[c], pc |-> "issue"]]
    /\ pages = [c \in ClientNames |-> [response |-> Raised("none", 0), collected |-> <<>>]]
    /\ IdleGen /\ IdleFilter
    /\ IdleRegistry /\ IdleUpdate /\ IdleId /\ IdleAttr

\* A search that takes the objects it serves out of the collection.
ClientSearch_Consumes(c) ==
    /\ clients[c].pc = "issue"
    /\ LET Answer(responseObj) ==
               /\ clients' = [clients EXCEPT ![c] =
                     [first |-> @.first,
                      request |-> IF NextToken(responseObj) # None
                                  THEN [@.request EXCEPT
                                           !.page_token = NextToken(responseObj)]
                                  ELSE @.request,
                      pc |-> IF responseObj.err # "none" THEN "raised"
                             ELSE IF NextToken(responseObj) # None THEN "issue"
                             ELSE "done"]]
               /\ pages' = [pages EXCEPT ![c] =
                     [response |-> responseObj,
                      collected |-> @.collected \o responseObj.rows]]
               /\ patients' = SubSeq(patients, Len(responseObj.rows) + 1, Len(patients))
       IN  Answer(runSearchRequest(clients[c].request, "patients", patients, access_map,
                                   defaultPageSize, maxResponseLength))
    /\ UNCHANGED <<samples, access_map, defaultPageSize, maxResponseLength>>
    /\ UNCHANGED <<searchVars, queryVars, resultVars, pc, genVars, filterVars,
                   registryVars, updateVars, idVars, attrVars>>

\* Backend.runSearchPatients for the request of client c, who copies the
\* returned token into its next request.
ClientSearch(c) ==
    /\ clients[c].pc = "issue"
    /\ LET Answer(responseObj) ==
               /\ clients' = [clients EXCEPT ![c] =
                     [first |-> @.first,
                      request |-> IF NextToken(responseObj) # None
                                  THEN [@.request EXCEPT
                                           !.page_token = NextToken(responseObj)]
                                  ELSE @.request,
                      pc |-> IF responseObj.err # "none" THEN "raised"
                             ELSE IF NextToken(responseObj) # None THEN "issue"
                             ELSE "done"]]
               /\ pages' = [pages EXCEPT ![c] =
                     [response |-> responseObj,
                      collected |-> @.collected \o responseObj.rows]]
       IN  Answer(runSearchRequest(clients[c].request, "patients", patients, access_map,
                                   defaultPageSize, maxResponseLength))
    /\ UNCHANGED repoVars
    /\ UNCHANGED <<searchVars, queryVars, resultVars, pc, genVars, filterVars,
                   registryVars, updateVars, idVars, attrVars>>

ClientsSearch == \E c \in ClientNames : ClientSearch(c)

NextConcurrent ==
    \/ ComponentsHandler \/ CallFirstPage \/ CallNextPage \/ EvaluateLogic
    \/ ResultsHandler \/ FollowQueryToken
    \/ ClientsSearch

SpecConcurrent == InitConcurrent /\ [][NextConcurrent]_vars

\* What a client gets for a request when it searches alone: the rows of
\* all pages, up to the error if a page fails.
RECURSIVE SearchAlone(_)
SearchAlone(req) ==
    LET Rest(responseObj) ==
            IF responseObj.err # "none"
            THEN [err |-> responseObj.err, rows |-> <<>>]
            ELSE IF NextToken(responseObj) = None
            THEN [err |-> "none", rows |-> responseObj.rows]
            ELSE LET More(rest) ==
                         [err |-> rest.err, rows |-> responseObj.rows \o rest.rows]
                 IN  More(SearchAlone([req EXCEPT !.page_token = NextToken(responseObj)]))
    IN  Rest(runSearchRequest(req, "patients", patients, access_map,
                              defaultPageSize, maxResponseLength))

AnsweredAsAlone ==
    \A c \in ClientNames :
        clients[c].pc \in {"done", "raised"} =>
            LET Same(alone) ==
                    /\ pages[c].collected = alone.rows
                    /\ pages[c].response.err = alone.err
            IN  Same(SearchAlone(clients[c].first))

AuthLogics == QueryLogics \cup {Op("or", <<>>), Op("and", <<>>)}

InitAuth ==
    /\ patients \in {AsPatients(l) : l \in QueryPatients}
    /\ samples \in {l \in QuerySamples : Len(l) # 1}
    /\ access_map \in AccessMaps
    /\ defaultPageSize = 1
    /\ maxResponseLength = MaxResponseLength
    /\ query \in [components : ComponentLists, logic : AuthLogics,
                   results : {<<ResultsEntry({"table"}, "patients", <<>>)>>,
                              <<ResultsEntry({"table", "fields"}, "patients", <<"age">>)>>},
                   pageToken : {None}, count : BOOLEAN]
    /\ Received
    /\ collected = <<>>
    /\ lookups = 0
    /\ IdleGen /\ IdleFilter
    /\ IdleRegistry /\ IdleUpdate /\ IdleId /\ IdleAttr /\ IdlePages /\ IdleClients

SpecAuth == InitAuth /\ [][NextQuery]_vars

\* The dataset's local name is no key of the access map.
DatasetAbsent == DatasetName \notin DOMAIN access_map

\* The error the request ended with, "none" while it has not raised.
RaisedError ==
    IF pc # "raised" THEN "none"
    ELSE IF results.err # "none" THEN results.err
    ELSE IF patient_list.err # "none" THEN patient_list.err
    ELSE response.err

\* C25: for a dataset absent from the access map no advanced query or count
\* returns a response, whatever its components and logic are, and every
\* request that ends, ends in NotAuthorizedException.
C25_NoUnauthorizedAnswer ==
    DatasetAbsent =>
        /\ pc # "returned"
        /\ pc = "raised" => RaisedError = "NotAuthorizedException"

\* ----------------------------------------------------------------- SpecPages
\* A client follows the nextPageToken of an advanced query or count; `pages`
\* keeps, for every request of the query already answered, its page token
\* and what it computed.
PageRecord ==
    [pageToken |-> query.pageToken, order |-> fanout.order,
     requests |-> fanout.requests, responses |-> responses,
     patient_list |-> patient_list, request |-> request, results |-> results]

InitPages ==
    /\ patients \in {AsPatients(l) : l \in QueryPatients}
    /\ samples \in {l \in QuerySamples : Len(l) # 1}
    /\ access_map = [d \in {DatasetName} |-> 0]
    /\ defaultPageSize \in {1, 2}
    /\ maxResponseLength = MaxResponseLength
    /\ query \in [components : ResultsComponents, logic : QueryLogics,
                   results : {<<ResultsEntry({"table"}, "patients", <<>>)>>,
                              <<ResultsEntry({"table", "fields"}, "patients", <<"age">>)>>,
                              <<ResultsEntry({"table", "fields"}, "samples",
                                             <<"age", "patientId">>)>>},
                   pageToken : {None}, count : BOOLEAN]
    /\ Received
    /\ collected = <<>>
    /\ lookups = 0
    /\ pages = <<>>
    /\ IdleGen /\ IdleFilter
    /\ IdleRegistry /\ IdleUpdate /\ IdleId /\ IdleAttr /\ IdleClients

\* The client sends the same query again with the returned nextPageToken as
\* its pageToken; the answered request is kept in `pages`.
NextQueryPage ==
    /\ pc = "returned"
    /\ "nextPageToken" \in results.keys
    /\ pages' = Append(pages, PageRecord)
    /\ query' = [query EXCEPT !.pageToken = results.nextPageToken]
    /\ responses' = <<>>
    /\ fanout' = [order |-> <<>>, idMapper |-> <<>>, requests |-> <<>>, k |-> 0]
    /\ patient_list' = [err |-> "none", set |-> {}]
    /\ request' = [filters |-> <<>>, page_size |-> 0, page_token |-> <<>>]
    /\ response' = Raised("none", 0)
    /\ results' = Raised("none", 0)
    /\ calls' = {}
    /\ pc' = "components"
    /\ UNCHANGED <<collected, lookups, genVars, filterVars, repoVars, registryVars,
                   updateVars, idVars, attrVars, clients>>

NextPages ==
    \/ ComponentsHandler \/ CallFirstPage \/ CallNextPage \/ EvaluateLogic
    \/ ResultsHandler \/ NextQueryPage

SpecPages == InitPages /\ [][NextPages]_vars

\* C26: the requests of one query that differ only in pageToken build the
\* same component requests, none with a page token, start every component
\* at its first page, collect the same responses and compute the same
\* join-key set; the caller's token is in the final table search only, and
\* the pages answered one after the other are consecutive pieces of the one
\* row list of the results table for that set.
C26_TokenPagesFinalAnswer ==
    /\ pc \in {"firstPage", "nextPage", "logic", "results", "returned"} =>
          /\ \A id \in DOMAIN fanout.requests : fanout.requests[id].page_token = <<>>
          /\ \A i \in 1..Len(pages) :
                /\ fanout.order = pages[i].order
                /\ fanout.requests = pages[i].requests
    /\ pc = "firstPage" => request.page_token = <<>>
    /\ pc \in {"logic", "results", "returned"} =>
          \A i \in 1..Len(pages) : responses = pages[i].responses
    /\ pc \in {"results", "returned"} =>
          \A i \in 1..Len(pages) : patient_list = pages[i].patient_list
    /\ (pc = "returned" /\ "endpoint" \in calls) =>
          /\ request = FinalRequest(patient_list.set, query.pageToken)
          /\ Len(pages) > 0 =>
                /\ query.pageToken = pages[Len(pages)].results.nextPageToken
                /\ request.page_token = query.pageToken
                /\ request.filters = pages[Len(pages)].request.filters
          /\ IsPrefix(collected, TableRows(query.results[1].table, patient_list.set))
          /\ "nextPageToken" \notin results.keys =>
                collected = TableRows(query.results[1].table, patient_list.set)

\* C26 witness: the second request of a query with two components, the
\* first of them collected over two pages, has repeated the fan-out from the
\* first pages and answered the second page of the final rows.
C26_Witness ==
    /\ pc = "returned" /\ "endpoint" \in calls
    /\ Len(pages) = 1 /\ query.pageToken # None
    /\ Len(query.components) = 2 /\ Len(responses["c1"]) = 2
    /\ defaultPageSize = 1
    /\ Len(collected) = 2

\* The count a response of a count query gives for value v of field f.
BucketCount(json, f, v) ==
    IF json.rows = <<>> THEN 0
    ELSE IF f \notin DOMAIN json.rows[1] THEN 0
    ELSE IF v \notin DOMAIN json.rows[1][f] THEN 0
    ELSE json.rows[1][f][v]

\* The counts of the first n answered requests added up.
RECURSIVE SumOfPages(_, _, _)
SumOfPages(n, f, v) ==
    IF n = 0 THEN 0
    ELSE BucketCount(pages[n].results, f, v) + SumOfPages(n - 1, f, v)

\* How many rows of a list have value v for field f.
RowsHaving(rows, f, v) ==
    Cardinality({i \in 1..Len(rows) : f \in DOMAIN rows[i] /\ rows[i][f] = v})

FieldValues == 0..(MaxObjects + MaxAge)

\* C30: each response of a count query counts the rows of its own page and
\* carries that page's nextPageToken; when the client has followed the
\* tokens to the response without one, the counts of all responses add up,
\* for every requested field and every value, to the number of final rows
\* with that value.
C30_CountsOverPages ==
    (pc = "returned" /\ query.count /\ "endpoint" \in calls) =>
        LET fields == SetOf(query.results[1].fields)
            final == TableRows(query.results[1].table, patient_list.set)
        IN  /\ \A f \in fields, v \in FieldValues :
                  BucketCount(results, f, v) = RowsHaving(response.rows, f, v)
            /\ ("nextPageToken" \in results.keys) = ("nextPageToken" \in response.keys)
            /\ results.nextPageToken = response.nextPageToken
            /\ "nextPageToken" \notin results.keys =>
                  \A f \in fields, v \in FieldValues :
                      SumOfPages(Len(pages), f, v) + BucketCount(results, f, v)
                          = RowsHaving(final, f, v)

\* C30 witness: the third and last page of a count over three patients, two
\* of them of age 1, one page each.
C30_Witness ==
    /\ pc = "returned" /\ query.count /\ "endpoint" \in calls
    /\ Len(pages) = 2 /\ "nextPageToken" \notin results.keys
    /\ query.results[1].table = "patients"
    /\ SumOfPages(2, "age", 1) + BucketCount(results, "age", 1) = 2
    /\ BucketCount(results, "age", 1) = 1

\* ----------------------------------------------------------- SpecTermination
\* The fan-out of an advanced query and clients that follow the tokens of a
\* search, for both default page sizes and both byte budgets.
InitTermination ==
    /\ patients \in {AsPatients(l) :
                        l \in {q \in QueryPatients : Len(q) \in 1..MaxRows}}
    /\ samples = <<>>
    /\ access_map = [d \in {DatasetName} |-> 0]
    /\ defaultPageSize \in {1, 2}
    /\ maxResponseLength \in {1, MaxResponseLength}
    /\ query \in [components : {<<Component("c1", "patients", FALSE, <<>>)>>,
                                <<Component("c1", "patients", FALSE, <<>>),
                                  Component("c2", "patients", FALSE, <<>>)>>},
                   logic : {Ref("c1")},
                   results : {<<ResultsEntry({"table"}, "patients", <<>>)>>},
                   pageToken : {None}, count : {FALSE}]
    /\ Received
    /\ collected = <<>>
    /\ lookups = 0
    /\ \E first \in [ClientNames -> ClientRequests] :
          /\ first[1].page_size = 0 /\ first[1].filters = <<>>
          /\ first[2].page_size = 2 /\ first[2].filters # <<>>
          /\ clients = [c \in ClientNames |->
                           [first |-> first[c], request |-> first[c], pc |-> "issue"]]
    /\ pages = [c \in ClientNames |-> [response |-> Raised("none", 0), collected |-> <<>>]]
    /\ IdleGen /\ IdleFilter
    /\ IdleRegistry /\ IdleUpdate /\ IdleId /\ IdleAttr

\* The page tokens a generator can yield.
PageTokens == {<<>>} \cup {str(i) : i \in 1..MaxObjects}

\* A call of endpointCaller's loop has returned or raised (CallFirstPage,
\* CallNextPage), told by what it moves: the position in the loop, the key,
\* the token of the next request.
FanoutStep ==
    /\ pc \in {"firstPage", "nextPage"}
    /\ pc' \in {"firstPage", "nextPage", "logic", "raised"}
    /\ fanout' \in {[fanout EXCEPT !.k = k] : k \in 1..(Len(fanout.order) + 1)}
    /\ request' \in {[r EXCEPT !.page_token = t] :
                        r \in {request} \cup {fanout.requests[id] :
                                                 id \in DOMAIN fanout.requests},
                        t \in PageTokens}

\* A client that holds a token has sent its next request and has its
\* answer (ClientSearch), told by what it moves: the client's position and
\* the token of its next request.
ClientsStep ==
    \E c \in ClientNames :
        /\ clients[c].pc = "issue"
        /\ clients' \in {[clients EXCEPT ![c] =
                              [first |-> @.first,
                               request |-> [@.request EXCEPT !.page_token = t],
                               pc |-> p]] :
                          t \in PageTokens, p \in {"issue", "done", "raised"}}

\* A handler that is called returns or raises, and a client that holds a
\* token sends its next request.
SpecTermination ==
    /\ InitTermination
    /\ [][NextConcurrent]_vars
    /\ WF_<<pc, fanout, request>>(FanoutStep)
    /\ WF_clients(ClientsStep)

\* The index a page token stands for, 0 for the absent token.
TokenValue(token) == IF token = <<>> \/ token = None THEN 0 ELSE int(token)

\* endpointCaller is in its loop for the component number k.
InLoop(k) == pc \in {"firstPage", "nextPage"} /\ fanout.k = k

\* C28: every response with a nextPageToken, in the fan-out and to a
\* client, holds at least one object and its token is greater than the
\* token of the request it answers; the loop of endpointCaller for each
\* component ends (with the next component, with the logic stage or with
\* an error), and each client that follows the tokens comes to a response
\* without token or to an error.
C28_FanoutTermination ==
    /\ [][(pc \in {"firstPage", "nextPage"} /\ pc' = "nextPage"
              /\ UNCHANGED <<clients, pages>>) =>
             /\ response'.rows # <<>>
             /\ request'.page_token = response'.nextPageToken
             /\ TokenValue(response'.nextPageToken) > TokenValue(request.page_token)]_vars
    /\ [][\A c \in ClientNames :
             (clients'[c] # clients[c] /\ clients'[c].pc = "issue") =>
                 /\ pages'[c].response.rows # <<>>
                 /\ clients'[c].request.page_token = pages'[c].response.nextPageToken
                 /\ TokenValue(pages'[c].response.nextPageToken)
                        > TokenValue(clients[c].request.page_token)]_vars
    /\ \A k \in 1..MaxChildren :
          InLoop(k) ~> (pc \in {"logic", "raised"} \/ InLoop(k + 1))
    /\ \A c \in ClientNames : <>(clients[c].pc \in {"done", "raised"})

\* C28 witness: the loop for the second component is at its second page
\* (two patients, one per page) while client 1 holds the token of its first
\* page.
C28_Witness ==
    /\ pc = "nextPage" /\ fanout.k = 2 /\ Len(responses["c2"]) = 1
    /\ Len(patients) = 2 /\ defaultPageSize = 1
    /\ clients[1].pc = "issue" /\ TokenValue(clients[1].request.page_token) = 1

====
